---- MODULE Spec2Model ----
(***************************************************************************)
(* CAPL - Collaborative Agent Planning Loop.                               *)
(*                                                                         *)
(* The state machines of the repository that are modelled:                 *)
(*   - the refinement orchestrator (CAPL.run, CAPLCLI.run,                 *)
(*     CAPLEnhanced.run, CAPLEnhancedCLI.run): Spec, SpecFair;             *)
(*   - the CLI transport run_with_pty of capl_cli.py: SpecPty,             *)
(*     SpecPtyFair, SpecPtyTerminal; its bytes: SpecEcho, SpecWriter;      *)
(*   - the invocation strategies of the CLI agents: SpecInvoke;            *)
(*   - one critique, from the raw answer to the record: SpecCritique;      *)
(*   - the factory functions: SpecFactory;                                 *)
(*   - the wrapper scripts of cli_wrappers: SpecWrapper.                   *)
(* Texts are sequences of one-character strings, so that startswith and    *)
(* strip are computed, not assumed.                                        *)
(***************************************************************************)
EXTENDS Integers, Sequences, FiniteSets, TLC

VARIABLES
    \* ---- orchestrator object and the run in progress ----
    variant,         \* which orchestrator class the object is
    max_iterations,  \* self.max_iterations
    history,         \* self.history, kept by the object across runs
    opc,             \* position of run(): which invocation is in flight
    iteration,       \* loop variable of the refinement loop
    current_work,    \* local current_work
    iteration_data,  \* local iteration_data of the iteration in progress
    result,          \* the dict returned by the last completed run
    runs,            \* number of run() calls made on the object
    calls,           \* invocations made by the run in progress, in order
    hist_at_start,   \* len(self.history) when the run in progress was called
    \* ---- one call of run_with_pty(command, input_text, timeout) ----
    mode,            \* "pty", or "pipe" when HAS_PTY is false (subprocess.run)
    exists,          \* whether command[0] names an executable
    timeout,         \* the timeout argument, in ticks of 5 seconds
    input_len,       \* len(input_text.encode())
    child_terminates,\* whether the command ever exits by itself
    pc,              \* position of the calling thread
    exc,             \* the exception being propagated, if any
    outcome,         \* how the call ended, as its caller sees it
    master_open,     \* the pty master descriptor is open in the parent
    slave_open,      \* the pty slave descriptor is open in the parent
    stderr_open,     \* the parent's end of the child's stderr pipe is open
    child,           \* "none", "running", "exited" or "killed"
    returncode,      \* exit status of the child once it has ended
    reaped,          \* the parent has collected the child's exit status
    child_tty,       \* the child still holds its terminal descriptors
    desc,            \* a descendant of the child holds the child's descriptors
    pty_in,          \* bytes written to the master the child has not read yet
    pty_out,         \* bytes written by the child the parent has not read yet
    produced,        \* bytes the child has written to its terminal so far
    output,          \* len(output), the bytes the read loop accumulated
    err_pending,     \* what the child has still to write to stderr before it exits
    stderr_buf,      \* bytes in the stderr pipe the parent has not read yet
    w_pc,            \* writer thread: "idle", "writing" or "done"
    written,         \* local written of write_input
    write_error,     \* write_error is non-empty
    joined,          \* writer_thread.join(timeout=5) has been called and is over
    now,             \* time.time(), in ticks of 5 seconds
    start_time,      \* local start_time
    running_at_deadline, \* the child was running when the deadline elapsed
    \* ---- one call of run_with_pty on a command that copies its input ----
    e_mode,          \* "pty" or "pipe"
    input_text,      \* the input_text argument
    child_kind,      \* how the command finds the end of its input
    e_pc,            \* position of the call
    e_written,       \* bytes of the input the writer has written
    tty_line,        \* terminal: the input line being assembled
    tty_ready,       \* terminal: completed input lines the child can read
    tty_out,         \* terminal: bytes queued for the master's reader
    child_copied,    \* number of bytes the command has copied so far
    e_child,         \* "none", "running", "exited" or "killed"
    out_bytes,       \* local output of the read loop
    e_outcome,       \* how the call ended
    e_stdout,        \* the stdout attribute of the returned result
    \* ---- one CLI capability object and its invocations ----
    cap,             \* the agent class
    cli_exists,      \* whether self.cli_command names an executable
    s_pc,            \* "idle", "attempt" (a subprocess is running) or "done"
    attempts,        \* the subprocesses the invocation has run, in order
    temp_file,       \* the prompt's temporary file exists
    s_outcome,       \* how the invocation ended, as its caller sees it
    s_returned,      \* the text generate() returned
    error_msg,       \* what the raised exception's message carries
    invocations,     \* number of invocations made on the object
    \* ---- one critique: the critic's generate() and the record made of it ----
    c_variant,       \* which critic and orchestrator classes are in use
    enable_search,   \* self.enable_search of the enhanced critics
    raw_response,    \* the text the service or command answered with
    c_pc,            \* "invoked", "returned" (by generate) or "recorded"
    critic_result,   \* the tuple generate() returned
    c_record,        \* the iteration_data run() built from it
    \* ---- one factory call and the first invocations of the object built ----
    factory,         \* which factory function is called
    anthropic_api_key, \* the anthropic_api_key argument
    env_anthropic,   \* os.getenv("ANTHROPIC_API_KEY")
    openai_api_key,  \* the openai_api_key argument
    env_openai,      \* os.getenv("OPENAI_API_KEY")
    worker_model,    \* the worker_model argument
    critic_model,    \* the critic_model argument
    worker_cli_exists, \* whether worker_cli names an executable
    critic_cli_exists, \* whether critic_cli names an executable
    f_pc,            \* "factory", "config_error", "constructed", then run()
    f_error,         \* the exception raised, if any
    f_invoked,       \* Worker and Critic invocations started so far
    f_spawned,       \* external processes spawned so far
    \* ---- the writer thread of one run_with_pty call, byte by byte ----
    wr_text,         \* input_text
    wr_data,         \* local data = input_text.encode()
    wr_pc,           \* "loop", "sleep" (after EAGAIN) or "done"
    wr_written,      \* local written
    delivered,       \* the bytes the master descriptor has accepted, in order
    wr_error,        \* write_error is non-empty
    \* ---- one run of a CLI wrapper script ----
    wrapper,         \* which wrapper script runs
    env_key,         \* os.getenv of the wrapper's API key variable
    argv,            \* sys.argv[1:]
    file_readable,   \* the prompt file exists and can be read
    source_text,     \* what stdin, or the prompt file, holds
    wp_pc,           \* "start", "read", "check", "api" or "exited"
    wp_prompt,       \* local prompt
    wp_api,          \* "none", "ok" or "error": how the API call ended
    wp_response,     \* the text the service answered with
    wp_stdout,       \* what the wrapper has written to stdout
    wp_stderr,       \* the wrapper has written to stderr
    wp_status        \* the exit status, once wp_pc is "exited"

ovars == <<variant, max_iterations, history, opc, iteration, current_work,
           iteration_data, result, runs, calls, hist_at_start>>

pparams == <<mode, exists, timeout, input_len, child_terminates>>
ctlvars == <<pc, exc, outcome>>
fdvars == <<master_open, slave_open, stderr_open>>
childvars == <<child, returncode, reaped, child_tty, desc>>
bufvars == <<pty_in, pty_out, produced, output, err_pending, stderr_buf>>
wvars == <<w_pc, written, write_error, joined>>
timevars == <<now, start_time, running_at_deadline>>
pvars == <<pparams, ctlvars, fdvars, childvars, bufvars, wvars, timevars>>

evars == <<e_mode, input_text, child_kind, e_pc, e_written, tty_line, tty_ready,
           tty_out, child_copied, e_child, out_bytes, e_outcome, e_stdout>>
svars == <<cap, cli_exists, s_pc, attempts, temp_file, s_outcome, s_returned,
           error_msg, invocations>>
cvars == <<c_variant, enable_search, raw_response, c_pc, critic_result, c_record>>
fparams == <<factory, anthropic_api_key, env_anthropic, openai_api_key, env_openai,
             worker_model, critic_model, worker_cli_exists, critic_cli_exists>>
fvars == <<fparams, f_pc, f_error, f_invoked, f_spawned>>
wrvars == <<wr_text, wr_data, wr_pc, wr_written, delivered, wr_error>>
wpparams == <<wrapper, env_key, argv, file_readable, source_text>>
wpvars == <<wpparams, wp_pc, wp_prompt, wp_api, wp_response, wp_stdout, wp_stderr, wp_status>>
morevars == <<fvars, wrvars, wpvars>>
xvars == <<evars, svars, cvars, morevars>>
e_others == <<ovars, pvars, svars, cvars, morevars>>
s_others == <<ovars, pvars, evars, cvars, morevars>>
c_others == <<ovars, pvars, evars, svars, morevars>>
f_others == <<ovars, pvars, evars, svars, cvars, wrvars, wpvars>>
wr_others == <<ovars, pvars, evars, svars, cvars, fvars, wpvars>>
wp_others == <<ovars, pvars, evars, svars, cvars, fvars, wrvars>>

vars == <<ovars, pvars, xvars>>

\* ------------------------------------------------------------------ bounds
MaxIterBound == 2
MaxRuns == 2
MaxTimeout == 2      \* timeouts of 1..MaxTimeout ticks are tried
MaxInput == 2        \* inputs of 0..MaxInput bytes are tried
MaxOutput == 2       \* the child writes at most MaxOutput units of output
PtyInCap == 1        \* bytes the terminal's input queue holds
PtyOutCap == 2       \* units the terminal's output queue holds
MaxErr == 2          \* the child writes at most MaxErr units to its stderr
StderrCap == 1       \* units the stderr pipe holds
MaxText == 2         \* input texts of 0..MaxText characters are copied
MaxInvocations == 2  \* invocations made on one capability object

\* ------------------------------------------------------------------ texts
APPROVED == <<"A","P","P","R","O","V","E","D",":">>
NEEDS_VERIFICATION ==
    <<"N","E","E","D","S"," ","V","E","R","I","F","I","C","A","T","I","O","N",":">>

RespApproved == APPROVED \o <<" ","g","o","o","d">>
RespNeedsWork == <<"N","E","E","D","S"," ","W","O","R","K",":">>
RespVerify == NEEDS_VERIFICATION \o <<" ","x">>
RespEmpty == <<>>
RespSpaceApproved == <<" ">> \o APPROVED

\* Raw texts the critic service or command answers with in a session.
CriticResponses == {RespApproved, RespNeedsWork, RespVerify, RespEmpty}

Whitespace == {" ", "\n", "\t", "\r"}

\* str.startswith
StartsWith(s, p) == Len(s) >= Len(p) /\ SubSeq(s, 1, Len(p)) = p

RECURSIVE LStrip(_)
LStrip(s) == IF s # <<>> /\ Head(s) \in Whitespace THEN LStrip(Tail(s)) ELSE s

RECURSIVE RStrip(_)
RStrip(s) ==
    IF s # <<>> /\ s[Len(s)] \in Whitespace
    THEN RStrip(SubSeq(s, 1, Len(s) - 1))
    ELSE s

\* str.strip
Strip(s) == RStrip(LStrip(s))

\* Python None, in the two places a record can hold it
NoneText == <<"None">>
NoneWork == <<0, 0>>

\* Python truthiness of an Optional[str]
Truthy(t) == t # NoneText /\ t # <<>>

\* The n-th text the worker produces in run r ("draft n").
Draft(r, n) == <<r, n>>

Variants == {"direct", "cli", "enhanced", "enhanced_cli"}

\* ------------------------------------------------------------------ critic
\* The feedback text the critic capability hands to the loop for a raw answer:
\* the API variants pass message.content on unchanged; the CLI variants strip
\* the captured stdout (run_with_pty strips, then generate strips again).
CriticFeedback(v, raw) ==
    CASE v = "direct" -> raw
      [] v = "enhanced" -> raw
      [] v = "cli" -> Strip(Strip(raw))
      [] v = "enhanced_cli" -> Strip(raw)

\* is_approved = feedback.startswith("APPROVED:")
IsApprovedMutWholeText(feedback) == feedback = APPROVED
IsApprovedMutVerifyToo(feedback) ==
    StartsWith(feedback, APPROVED) \/ StartsWith(feedback, NEEDS_VERIFICATION)
IsApproved(feedback) == StartsWith(feedback, APPROVED)

\* ------------------------------------------------------------------ records
Record(i, w, fb, ap) ==
    [iteration |-> i, work |-> w, feedback |-> fb, approved |-> ap]

NoneRecord == Record(0, NoneWork, NoneText, FALSE)

\* One capability invocation as the run makes it.  A Worker call carries the
\* feedback and previous work it is given (None when absent) and the framing
\* its generate() chooses with `if feedback:`; a Critic call carries the work
\* under review.
WorkerCall(fb, prev) ==
    [role |-> "Worker", feedback |-> fb, work |-> prev,
     framing |-> IF Truthy(fb) THEN "revision" ELSE "fresh"]

CriticCall(w) ==
    [role |-> "Critic", feedback |-> NoneText, work |-> w, framing |-> "review"]

\* self.worker.generate(prompt, feedback[, current_work]) of the refinement
\* step: only the enhanced orchestrators pass the current work on.
RefineCall(v, fb, w) ==
    IF v \in {"enhanced", "enhanced_cli"} THEN WorkerCall(fb, w)
    ELSE WorkerCall(fb, NoneWork)

CountRole(cs, r) == Cardinality({i \in 1..Len(cs) : cs[i].role = r})
WorkerCalls == CountRole(calls, "Worker")
CriticCalls == CountRole(calls, "Critic")

\* ------------------------------------------------------------------ loop
\* for iteration in range(1, self.max_iterations + 1)
LoopContinuesMutOneMore(i) == i <= max_iterations + 1
LoopContinues(i) == i <= max_iterations

\* if iteration < self.max_iterations
ShouldRefineMutAlways(i) == TRUE
ShouldRefineMutOnLast(i) == i <= max_iterations
ShouldRefine(i) == i < max_iterations

\* The dict run() returns.  Its "history" entry is self.history itself (the
\* same list object), which ReturnedHistory reads.
FinalResultMutInitialWork(h, w) ==
    [final_work |-> h[hist_at_start + 1].work,
     total_iterations |->
        Cardinality({i \in 1..Len(h) : Truthy(h[i].feedback)}),
     approved |-> h[Len(h)].approved]
FinalResultMutAlwaysApproved(h, w) ==
    [final_work |-> w,
     total_iterations |->
        Cardinality({i \in 1..Len(h) : Truthy(h[i].feedback)}),
     approved |-> TRUE]
FinalResult(h, w) ==
    [final_work |-> w,
     total_iterations |->
        Cardinality({i \in 1..Len(h) : Truthy(h[i].feedback)}),
     approved |-> h[Len(h)].approved]

ReturnedHistory == history

NoResult == [final_work |-> NoneWork, total_iterations |-> 0, approved |-> FALSE]

\* The loop is over (exhausted or break): build the result and return.
Return(h, w, cs) ==
    /\ opc' = "returned"
    /\ result' = FinalResult(h, w)
    /\ calls' = cs
    /\ UNCHANGED iteration

\* Top of the for loop with the loop variable about to take value i: either
\* the critic is invoked on the current work, or the loop is exhausted.
LoopHead(i, h, w, cs) ==
    IF LoopContinues(i)
    THEN /\ opc' = "critique"
         /\ iteration' = i
         /\ calls' = Append(cs, CriticCall(w))
         /\ UNCHANGED result
    ELSE Return(h, w, cs)

\* run() with the Critic started together with the initial Worker invocation.
StartRunMutOverlap ==
    /\ opc \in {"idle", "returned", "raised"}
    /\ runs < MaxRuns
    /\ runs' = runs + 1
    /\ opc' = "initial_generate"
    /\ calls' = <<WorkerCall(NoneText, NoneWork), CriticCall(NoneWork)>>
    /\ iteration' = 0
    /\ current_work' = NoneWork
    /\ iteration_data' = NoneRecord
    /\ hist_at_start' = Len(history)
    /\ UNCHANGED <<pvars, xvars, variant, max_iterations, history, result>>

\* run() is called on the object: the initial Worker invocation starts.
StartRun ==
    /\ opc \in {"idle", "returned", "raised"}
    /\ runs < MaxRuns
    /\ runs' = runs + 1
    /\ opc' = "initial_generate"
    /\ calls' = <<WorkerCall(NoneText, NoneWork)>>
    /\ iteration' = 0
    /\ current_work' = NoneWork
    /\ iteration_data' = NoneRecord
    /\ hist_at_start' = Len(history)
    /\ UNCHANGED <<pvars, xvars, variant, max_iterations, history, result>>

\* The initial generation returns: record 0 is appended and the loop starts.
InitialWorkReturns ==
    /\ opc = "initial_generate"
    /\ LET w == Draft(runs, 1)
           d == Record(0, w, NoneText, FALSE)
           h == Append(history, d)
       IN /\ current_work' = w
          /\ iteration_data' = d
          /\ history' = h
          /\ LoopHead(1, h, w, calls)
    /\ UNCHANGED <<pvars, xvars, variant, max_iterations, runs, hist_at_start>>

\* The critic invocation of the current iteration returns raw.
CriticReturns(raw) ==
    /\ opc = "critique"
    /\ LET feedback == CriticFeedback(variant, raw)
           is_approved == IsApproved(feedback)
           data == Record(iteration, NoneWork, feedback, is_approved)
           kept == [data EXCEPT !.work = current_work]
           h == Append(history, kept)
       IN IF is_approved
          THEN \* approved: record the unchanged work, break
               /\ history' = h
               /\ iteration_data' = kept
               /\ Return(h, current_work, calls)
          ELSE IF ShouldRefine(iteration)
          THEN \* budget remains: the Worker is invoked for a refinement
               /\ opc' = "refine"
               /\ iteration_data' = data
               /\ calls' = Append(calls, RefineCall(variant, feedback, current_work))
               /\ UNCHANGED <<history, result, iteration>>
          ELSE \* last iteration: record the unchanged work, loop ends
               /\ history' = h
               /\ iteration_data' = kept
               /\ LoopHead(iteration + 1, h, current_work, calls)
    /\ UNCHANGED <<pvars, xvars, variant, max_iterations, runs, current_work, hist_at_start>>

\* A refinement whose record keeps the work that was reviewed.
RefineReturnsMutRecordsOldWork ==
    /\ opc = "refine"
    /\ LET w == Draft(runs, WorkerCalls)
           d == [iteration_data EXCEPT !.work = current_work]
           h == Append(history, d)
       IN /\ current_work' = w
          /\ iteration_data' = d
          /\ history' = h
          /\ LoopHead(iteration + 1, h, w, calls)
    /\ UNCHANGED <<pvars, xvars, variant, max_iterations, runs, hist_at_start>>

\* The refinement invocation returns: the new work replaces current_work and
\* the iteration's record is appended.
RefineReturns ==
    /\ opc = "refine"
    /\ LET w == Draft(runs, WorkerCalls)
           d == [iteration_data EXCEPT !.work = w]
           h == Append(history, d)
       IN /\ current_work' = w
          /\ iteration_data' = d
          /\ history' = h
          /\ LoopHead(iteration + 1, h, w, calls)
    /\ UNCHANGED <<pvars, xvars, variant, max_iterations, runs, hist_at_start>>

\* The invocation in flight raises: run() has no handler, the exception leaves
\* run() and nothing more of it executes.
InvocationRaises ==
    /\ opc \in {"initial_generate", "critique", "refine"}
    /\ opc' = "raised"
    /\ UNCHANGED <<pvars, xvars, variant, max_iterations, history, iteration, current_work,
                   iteration_data, result, runs, calls, hist_at_start>>

OrchStart ==
    /\ history = <<>>
    /\ opc = "idle"
    /\ iteration = 0
    /\ current_work = NoneWork
    /\ iteration_data = NoneRecord
    /\ result = NoResult
    /\ runs = 0
    /\ calls = <<>>
    /\ hist_at_start = 0

\* An orchestrator object right after construction.
OrchInit ==
    /\ variant \in Variants
    /\ max_iterations \in 0..MaxIterBound
    /\ OrchStart

OrchNext ==
    \/ StartRun
    \/ InitialWorkReturns
    \/ \E raw \in CriticResponses : CriticReturns(raw)
    \/ RefineReturns
    \/ InvocationRaises

\* ------------------------------------------------------------------ transport
\* Ticks of 5 seconds: the waits of writer_thread.join(timeout=5) and of
\* process.communicate(timeout=5).
JoinTimeout == 1
CommTimeout == 1
\* os.read(master, 4096), in units of 4096 bytes
ReadMax == 1

Min(a, b) == IF a <= b THEN a ELSE b

\* Somebody still holds the slave side of the terminal open.
TtyHeld == (child = "running" /\ child_tty) \/ desc

\* time.time() - start_time > timeout
Expired == now - start_time > timeout

\* Time passes only while the caller sleeps or waits (time.sleep, join,
\* communicate); the steps in between take no time.  Advance(d) lets d ticks
\* pass; the deadline elapses when the elapsed time first exceeds timeout, and
\* running_at_deadline notes whether the child was still running then.
Advance(d) ==
    /\ now' = now + d
    /\ running_at_deadline' =
          (running_at_deadline
             \/ (child = "running" /\ ~Expired /\ now + d - start_time > timeout))
    /\ UNCHANGED start_time

\* process.kill(): SIGKILL to a running child; on a child that has already
\* exited it only collects the exit status.
Kill ==
    IF child = "running"
    THEN /\ child' = "killed"
         /\ returncode' = -9
         /\ child_tty' = FALSE
         /\ UNCHANGED <<reaped, desc>>
    ELSE /\ reaped' = TRUE
         /\ UNCHANGED <<child, returncode, child_tty, desc>>

\* The Result / CompletedProcess handed back, as its callers classify it with
\* `if result.returncode != 0`.
ResultClass(rc) == IF rc = 0 THEN "Success" ELSE "Failed"

\* The exception that leaves the call, as its callers can tell it apart:
\* RuntimeError("Command timed out ...") / TimeoutExpired, FileNotFoundError,
\* or the writer's OSError.
RaisedClass(e) ==
    CASE e = "Timeout" -> "Timeout"
      [] e = "NotFound" -> "NotFound"
      [] e = "WriterError" -> "Failed"

\* ---- pseudo-terminal mode, the calling thread ----
\* master, slave = pty.openpty()
OpenPty ==
    /\ pc = "call"
    /\ mode = "pty"
    /\ master_open' = TRUE
    /\ slave_open' = TRUE
    /\ pc' = "popen"
    /\ UNCHANGED <<ovars, xvars, pparams, exc, outcome, stderr_open, childvars, bufvars,
                   wvars, timevars>>

\* subprocess.Popen raises FileNotFoundError: control goes to the handler.
PopenNotFound ==
    /\ pc = "popen"
    /\ ~exists
    /\ exc' = "NotFound"
    /\ pc' = "except"
    /\ UNCHANGED <<ovars, xvars, pparams, outcome, fdvars, childvars, bufvars, wvars, timevars>>

\* The child is spawned on the slave with a stderr pipe; the parent closes its
\* slave descriptor, makes the master non-blocking, starts the writer thread
\* and notes start_time.
PopenOk ==
    /\ pc = "popen"
    /\ exists
    /\ child' = "running"
    /\ child_tty' = TRUE
    /\ stderr_open' = TRUE
    /\ slave_open' = FALSE
    /\ w_pc' = "writing"
    /\ start_time' = now
    /\ pc' = "loop_top"
    /\ UNCHANGED <<ovars, xvars, pparams, exc, outcome, master_open, returncode, reaped, desc,
                   bufvars, written, write_error, joined, now, running_at_deadline>>

\* Top of the read loop with the deadline passed: kill and raise.
LoopDeadline ==
    /\ pc = "loop_top"
    /\ Expired
    /\ Kill
    /\ exc' = "Timeout"
    /\ pc' = "except"
    /\ UNCHANGED <<ovars, xvars, pparams, outcome, fdvars, bufvars, wvars, timevars>>

\* A read loop that starts only once the writer has delivered all its input.
ReadChunkMutAfterWriter ==
    /\ pc = "loop_top"
    /\ ~Expired
    /\ pty_out > 0
    /\ w_pc = "done"
    /\ LET n == Min(pty_out, ReadMax)
       IN /\ output' = output + n
          /\ pty_out' = pty_out - n
    /\ UNCHANGED <<ovars, xvars, pparams, ctlvars, fdvars, childvars, pty_in, produced,
                   err_pending, stderr_buf, wvars, timevars>>

\* os.read returns a chunk, which is appended to output.
ReadChunk ==
    /\ pc = "loop_top"
    /\ ~Expired
    /\ pty_out > 0
    /\ LET n == Min(pty_out, ReadMax)
       IN /\ output' = output + n
          /\ pty_out' = pty_out - n
    /\ UNCHANGED <<ovars, xvars, pparams, ctlvars, fdvars, childvars, pty_in, produced,
                   err_pending, stderr_buf, wvars, timevars>>

\* os.read raises EAGAIN: nothing is buffered and the slave side is open.
\* process.poll() comes next; the child runs on in between.
ReadEagain ==
    /\ pc = "loop_top"
    /\ ~Expired
    /\ pty_out = 0
    /\ TtyHeld
    /\ pc' = "poll"
    /\ UNCHANGED <<ovars, xvars, pparams, exc, outcome, fdvars, childvars, bufvars, wvars,
                   timevars>>

\* os.read would block and process.poll() is None: sleep 0.1 and loop.
ReadWouldBlock ==
    /\ pc = "poll"
    /\ child = "running"
    /\ Advance(1)
    /\ pc' = "loop_top"
    /\ UNCHANGED <<ovars, xvars, pparams, exc, outcome, fdvars, childvars, bufvars, wvars>>

\* os.read would block and process.poll() reports the child's exit: sleep 0.1
\* and go for the one final read.
ReadWouldBlockExited ==
    /\ pc = "poll"
    /\ child # "running"
    /\ reaped' = TRUE
    /\ pc' = "final_read"
    /\ UNCHANGED <<ovars, xvars, pparams, exc, outcome, fdvars, child, returncode, child_tty,
                   desc, bufvars, wvars, timevars>>

\* os.read reports that the slave side is closed (an empty chunk, or an
\* OSError other than EAGAIN): break.
ReadHangup ==
    /\ pc = "loop_top"
    /\ ~Expired
    /\ pty_out = 0
    /\ ~TtyHeld
    /\ pc' = "join"
    /\ UNCHANGED <<ovars, xvars, pparams, exc, outcome, fdvars, childvars, bufvars, wvars,
                   timevars>>

\* The one more read after the child's exit was seen, then break.
FinalRead ==
    /\ pc = "final_read"
    /\ LET n == Min(pty_out, ReadMax)
       IN /\ output' = output + n
          /\ pty_out' = pty_out - n
    /\ pc' = "join"
    /\ UNCHANGED <<ovars, xvars, pparams, exc, outcome, fdvars, childvars, pty_in, produced,
                   err_pending, stderr_buf, wvars, timevars>>

\* writer_thread.join(timeout=5) returns because the writer has finished.
JoinDone ==
    /\ pc = "join"
    /\ w_pc = "done"
    /\ joined' = TRUE
    /\ pc' = "after_join"
    /\ UNCHANGED <<ovars, xvars, pparams, exc, outcome, fdvars, childvars, bufvars, w_pc,
                   written, write_error, timevars>>

\* The writer is in its retry loop: os.write raises EAGAIN because the
\* terminal's input queue is full.
WriterBlocked ==
    /\ w_pc = "writing"
    /\ written < input_len
    /\ master_open
    /\ TtyHeld
    /\ pty_in >= PtyInCap

\* writer_thread.join(timeout=5) gives up after 5 seconds, the writer being
\* still blocked.
JoinTimesOut ==
    /\ pc = "join"
    /\ WriterBlocked
    /\ Advance(JoinTimeout)
    /\ joined' = TRUE
    /\ pc' = "after_join"
    /\ UNCHANGED <<ovars, xvars, pparams, exc, outcome, fdvars, childvars, bufvars, w_pc,
                   written, write_error>>

\* if write_error: raise write_error[0]
RaiseWriteError ==
    /\ pc = "after_join"
    /\ write_error
    /\ exc' = "WriterError"
    /\ pc' = "except"
    /\ UNCHANGED <<ovars, xvars, pparams, outcome, fdvars, childvars, bufvars, wvars, timevars>>

\* os.close(master)
CloseMaster ==
    /\ pc = "after_join"
    /\ ~write_error
    /\ master_open' = FALSE
    /\ pc' = "communicate"
    /\ UNCHANGED <<ovars, xvars, pparams, exc, outcome, slave_open, stderr_open, childvars,
                   bufvars, wvars, timevars>>

\* communicate() has the child's exit status and the end of its stderr: the
\* pipe is closed and the Result is returned.
Communicated ==
    /\ child # "running"
    /\ ~desc
    /\ reaped' = TRUE
    /\ stderr_open' = FALSE
    /\ outcome' = ResultClass(returncode)
    /\ pc' = "done"
    /\ stderr_buf' = 0
    /\ UNCHANGED <<ovars, xvars, pparams, exc, master_open, slave_open, child, returncode,
                   child_tty, desc, pty_in, pty_out, produced, output, err_pending, wvars,
                   timevars>>

\* communicate() reads what the child has written to its stderr while it
\* waits for the child.
StderrDrained ==
    /\ pc \in {"communicate", "comm_killed", "pipe_wait"}
    /\ stderr_buf > 0
    /\ stderr_buf' = 0
    /\ UNCHANGED <<ovars, xvars, pparams, ctlvars, fdvars, childvars, pty_in, pty_out,
                   produced, output, err_pending, wvars, timevars>>

\* process.communicate(timeout=5) completes.
CommunicateDone ==
    /\ pc = "communicate"
    /\ Communicated

\* process.communicate(timeout=5) raises TimeoutExpired, having read what
\* there was to read of stderr: process.kill().
CommunicateTimesOut ==
    /\ pc = "communicate"
    /\ child = "running" \/ desc
    /\ stderr_buf = 0
    /\ Advance(CommTimeout)
    /\ Kill
    /\ pc' = "comm_killed"
    /\ UNCHANGED <<ovars, xvars, pparams, exc, outcome, fdvars, bufvars, wvars>>

\* The process.communicate() without timeout that follows the kill completes.
CommunicateAfterKill ==
    /\ pc = "comm_killed"
    /\ Communicated

\* except Exception: close master, kill the process if there is one, re-raise.
ExceptHandlerMutNoKill ==
    /\ pc = "except"
    /\ master_open' = FALSE
    /\ UNCHANGED childvars
    /\ outcome' = RaisedClass(exc)
    /\ pc' = "done"
    /\ UNCHANGED <<ovars, xvars, pparams, exc, slave_open, stderr_open, bufvars, wvars, timevars>>
ExceptHandler ==
    /\ pc = "except"
    /\ master_open' = FALSE
    /\ IF child # "none" THEN Kill ELSE UNCHANGED childvars
    /\ outcome' = RaisedClass(exc)
    /\ pc' = "done"
    /\ UNCHANGED <<ovars, xvars, pparams, exc, slave_open, stderr_open, bufvars, wvars, timevars>>

\* ---- pseudo-terminal mode, the writer thread write_input ----
\* os.write(master, data[written:]) takes n bytes.
WriterWrites(n) ==
    /\ w_pc = "writing"
    /\ written < input_len
    /\ master_open
    /\ TtyHeld
    /\ n <= input_len - written
    /\ n <= PtyInCap - pty_in
    /\ written' = written + n
    /\ pty_in' = pty_in + n
    /\ UNCHANGED <<ovars, xvars, pparams, ctlvars, fdvars, childvars, pty_out, produced,
                   output, err_pending, stderr_buf, w_pc, write_error, joined, timevars>>

\* os.write raises an OSError other than EAGAIN (the slave side is closed, or
\* the master descriptor has been closed): the error is kept and the thread
\* ends.
WriterFails ==
    /\ w_pc = "writing"
    /\ written < input_len
    /\ ~master_open \/ ~TtyHeld
    /\ write_error' = TRUE
    /\ w_pc' = "done"
    /\ UNCHANGED <<ovars, xvars, pparams, ctlvars, fdvars, childvars, bufvars, written,
                   joined, timevars>>

\* All bytes are written: write_complete.set(), the thread ends.
WriterCompletes ==
    /\ w_pc = "writing"
    /\ written = input_len
    /\ w_pc' = "done"
    /\ UNCHANGED <<ovars, xvars, pparams, ctlvars, fdvars, childvars, bufvars, written,
                   write_error, joined, timevars>>

\* ---- pipe mode: subprocess.run(command, input=..., timeout=timeout) ----
\* Popen raises FileNotFoundError.
PipeNotFound ==
    /\ pc = "call"
    /\ mode = "pipe"
    /\ ~exists
    /\ outcome' = RaisedClass("NotFound")
    /\ exc' = "NotFound"
    /\ pc' = "done"
    /\ UNCHANGED <<ovars, xvars, pparams, fdvars, childvars, bufvars, wvars, timevars>>

\* The child is spawned on pipes and communicate(input, timeout) starts.
PipeSpawn ==
    /\ pc = "call"
    /\ mode = "pipe"
    /\ exists
    /\ child' = "running"
    /\ stderr_open' = TRUE
    /\ start_time' = now
    /\ pc' = "pipe_wait"
    /\ UNCHANGED <<ovars, xvars, pparams, exc, outcome, master_open, slave_open, returncode,
                   reaped, child_tty, desc, bufvars, wvars, now,
                   running_at_deadline>>

\* The child has exited and its pipes are at end of file: CompletedProcess.
PipeCompletes ==
    /\ pc = "pipe_wait"
    /\ Communicated

\* The deadline passes first: run() kills the child, waits for it, closes the
\* pipes and raises TimeoutExpired.
PipeTimesOut ==
    /\ pc = "pipe_wait"
    /\ child = "running" \/ desc
    /\ stderr_buf = 0
    /\ Advance(timeout + 1)
    /\ IF child = "running"
       THEN /\ child' = "killed"
            /\ returncode' = -9
       ELSE UNCHANGED <<child, returncode>>
    /\ reaped' = TRUE
    /\ stderr_open' = FALSE
    /\ exc' = "Timeout"
    /\ outcome' = RaisedClass("Timeout")
    /\ pc' = "done"
    /\ UNCHANGED <<ovars, xvars, pparams, master_open, slave_open, child_tty, desc, bufvars,
                   wvars>>

\* ---- the external command ----
\* The child reads a byte of its input.
ChildReads ==
    /\ child = "running"
    /\ child_tty
    /\ pty_in > 0
    /\ pty_in' = pty_in - 1
    /\ UNCHANGED <<ovars, xvars, pparams, ctlvars, fdvars, childvars, pty_out, produced,
                   output, err_pending, stderr_buf, wvars, timevars>>

\* The child writes a unit of output to its terminal.
ChildWrites ==
    /\ child = "running"
    /\ child_tty
    /\ mode = "pty"
    /\ produced < MaxOutput
    /\ pty_out < PtyOutCap
    /\ pty_out' = pty_out + 1
    /\ produced' = produced + 1
    /\ UNCHANGED <<ovars, xvars, pparams, ctlvars, fdvars, childvars, pty_in, output,
                   err_pending, stderr_buf, wvars, timevars>>

\* The child writes a unit to its stderr; it blocks while the pipe is full.
ChildWritesStderr ==
    /\ child = "running"
    /\ err_pending > 0
    /\ stderr_buf < StderrCap
    /\ err_pending' = err_pending - 1
    /\ stderr_buf' = stderr_buf + 1
    /\ UNCHANGED <<ovars, xvars, pparams, ctlvars, fdvars, childvars, pty_in, pty_out,
                   produced, output, wvars, timevars>>

\* The child closes its terminal descriptors and keeps running.
ChildClosesTty ==
    /\ child = "running"
    /\ child_tty
    /\ mode = "pty"
    /\ child_tty' = FALSE
    /\ UNCHANGED <<ovars, xvars, pparams, ctlvars, fdvars, child, returncode, reaped, desc,
                   bufvars, wvars, timevars>>

\* The child starts a descendant that inherits its descriptors and outlives it.
ChildForks ==
    /\ child = "running"
    /\ child_tty \/ mode = "pipe"
    /\ ~desc
    /\ desc' = TRUE
    /\ UNCHANGED <<ovars, xvars, pparams, ctlvars, fdvars, child, returncode, reaped,
                   child_tty, bufvars, wvars, timevars>>

\* The child exits by itself with status rc, its stderr output written.
ChildExits(rc) ==
    /\ child = "running"
    /\ child_terminates
    /\ err_pending = 0
    /\ child' = "exited"
    /\ returncode' = rc
    /\ child_tty' = FALSE
    /\ UNCHANGED <<ovars, xvars, pparams, ctlvars, fdvars, reaped, desc, bufvars, wvars,
                   timevars>>

\* The descendant ends, releasing the descriptors it inherited.
DescendantExits ==
    /\ desc
    /\ child # "running"
    /\ desc' = FALSE
    /\ UNCHANGED <<ovars, xvars, pparams, ctlvars, fdvars, child, returncode, reaped,
                   child_tty, bufvars, wvars, timevars>>

\* No transport call in progress.
PtyStart ==
    /\ pc = "call"
    /\ exc = "none"
    /\ outcome = "none"
    /\ master_open = FALSE
    /\ slave_open = FALSE
    /\ stderr_open = FALSE
    /\ child = "none"
    /\ returncode = 0
    /\ reaped = FALSE
    /\ child_tty = FALSE
    /\ desc = FALSE
    /\ pty_in = 0
    /\ pty_out = 0
    /\ produced = 0
    /\ output = 0
    /\ stderr_buf = 0
    /\ w_pc = "idle"
    /\ written = 0
    /\ write_error = FALSE
    /\ joined = FALSE
    /\ now = 0
    /\ start_time = 0
    /\ running_at_deadline = FALSE

PtyIdle ==
    /\ mode = "pty"
    /\ exists = TRUE
    /\ timeout = 1
    /\ input_len = 0
    /\ child_terminates = TRUE
    /\ err_pending = 0
    /\ PtyStart

\* run_with_pty is called with some command, input text and timeout.
PtyInit ==
    /\ mode \in {"pty", "pipe"}
    /\ exists \in BOOLEAN
    /\ timeout \in 1..MaxTimeout
    /\ input_len \in 0..MaxInput
    /\ child_terminates \in BOOLEAN
    /\ err_pending \in 0..MaxErr
    /\ PtyStart

PtyNext ==
    \/ OpenPty
    \/ PopenNotFound
    \/ PopenOk
    \/ LoopDeadline
    \/ ReadChunk
    \/ ReadEagain
    \/ ReadWouldBlock
    \/ ReadWouldBlockExited
    \/ ReadHangup
    \/ FinalRead
    \/ JoinDone
    \/ JoinTimesOut
    \/ RaiseWriteError
    \/ CloseMaster
    \/ CommunicateDone
    \/ CommunicateTimesOut
    \/ CommunicateAfterKill
    \/ StderrDrained
    \/ ExceptHandler
    \/ \E n \in 1..MaxInput : WriterWrites(n)
    \/ WriterFails
    \/ WriterCompletes
    \/ PipeNotFound
    \/ PipeSpawn
    \/ PipeCompletes
    \/ PipeTimesOut
    \/ ChildReads
    \/ ChildWrites
    \/ ChildWritesStderr
    \/ ChildClosesTty
    \/ ChildForks
    \/ \E rc \in {0, 1} : ChildExits(rc)
    \/ DescendantExits

\* ------------------------------------------------------------------ copying
\* run_with_pty on a command that copies its standard input to its standard
\* output and exits 0, with the bytes themselves followed through the call.
EchoChars == {"a", " ", "\n", "\r"}
Texts == UNION {[1..k -> EchoChars] : k \in 0..MaxText}

\* The terminal pty.openpty() creates is left in its default mode (no
\* tty.setraw, no termios call): input is line-buffered and echoed (ICANON,
\* ECHO), a carriage return typed becomes a newline (ICRNL), and a newline
\* sent to the terminal goes out as carriage return, newline (OPOST, ONLCR).
IcrNl(c) == IF c = "\r" THEN "\n" ELSE c

RECURSIVE OnlCr(_)
OnlCr(s) ==
    IF s = <<>> THEN <<>>
    ELSE IF Head(s) = "\n" THEN <<"\r", "\n">> \o OnlCr(Tail(s))
    ELSE <<Head(s)>> \o OnlCr(Tail(s))

\* text=True of subprocess.run: the captured stdout is read with universal
\* newlines, "\r\n" and "\r" both become "\n".
RECURSIVE UniversalNewlines(_)
UniversalNewlines(s) ==
    IF s = <<>> THEN <<>>
    ELSE IF Head(s) = "\r"
    THEN IF Len(s) >= 2 /\ s[2] = "\n"
         THEN <<"\n">> \o UniversalNewlines(Tail(Tail(s)))
         ELSE <<"\n">> \o UniversalNewlines(Tail(s))
    ELSE <<Head(s)>> \o UniversalNewlines(Tail(s))

\* The command copies to the end of its input ("to_eof", as cat does), or
\* copies as many bytes as the input has and stops ("counted").
ChildKinds == {"to_eof", "counted"}

\* Pipe mode: subprocess.run writes the input to the child's stdin and closes
\* it, the child copies it and exits 0, and the CompletedProcess carries the
\* captured stdout.
EchoPipeRun ==
    /\ e_pc = "call"
    /\ e_mode = "pipe"
    /\ e_written' = Len(input_text)
    /\ child_copied' = Len(input_text)
    /\ e_child' = "exited"
    /\ e_outcome' = ResultClass(0)
    /\ e_stdout' = UniversalNewlines(input_text)
    /\ e_pc' = "done"
    /\ UNCHANGED <<e_others, e_mode, input_text, child_kind, tty_line,
                   tty_ready, tty_out, out_bytes>>

\* Pseudo-terminal mode: openpty, Popen on the slave, the writer thread and
\* the read loop are started.
EchoPtySpawn ==
    /\ e_pc = "call"
    /\ e_mode = "pty"
    /\ e_child' = "running"
    /\ e_pc' = "loop"
    /\ UNCHANGED <<e_others, e_mode, input_text, child_kind, e_written,
                   tty_line, tty_ready, tty_out, child_copied, out_bytes,
                   e_outcome, e_stdout>>

\* The writer thread's os.write(master, ...) hands the next byte to the
\* terminal, which echoes it to the master's reader and adds it to the input
\* line; a newline completes the line and makes it readable by the child.
EchoWriterWrites ==
    /\ e_pc = "loop"
    /\ e_child = "running"
    /\ e_written < Len(input_text)
    /\ LET c == IcrNl(input_text[e_written + 1])
       IN /\ tty_out' = tty_out \o OnlCr(<<c>>)
          /\ IF c = "\n"
             THEN /\ tty_ready' = tty_ready \o tty_line \o <<c>>
                  /\ tty_line' = <<>>
             ELSE /\ tty_line' = Append(tty_line, c)
                  /\ UNCHANGED tty_ready
    /\ e_written' = e_written + 1
    /\ UNCHANGED <<e_others, e_mode, input_text, child_kind, e_pc,
                   child_copied, e_child, out_bytes, e_outcome, e_stdout>>

\* The child reads the completed lines and writes them to its stdout, the
\* terminal again.
EchoChildCopies ==
    /\ e_pc = "loop"
    /\ e_child = "running"
    /\ tty_ready # <<>>
    /\ tty_out' = tty_out \o OnlCr(tty_ready)
    /\ child_copied' = child_copied + Len(tty_ready)
    /\ tty_ready' = <<>>
    /\ UNCHANGED <<e_others, e_mode, input_text, child_kind, e_pc, e_written,
                   tty_line, e_child, out_bytes, e_outcome, e_stdout>>

\* The child has copied all it was going to copy and exits 0.  Nothing ever
\* signals the end of input on the terminal while the read loop runs (the
\* master is closed only after the loop), so only the counting child does.
EchoChildExits ==
    /\ e_pc = "loop"
    /\ e_child = "running"
    /\ child_kind = "counted"
    /\ child_copied = Len(input_text)
    /\ e_child' = "exited"
    /\ UNCHANGED <<e_others, e_mode, input_text, child_kind, e_pc, e_written,
                   tty_line, tty_ready, tty_out, child_copied, out_bytes,
                   e_outcome, e_stdout>>

\* os.read(master, 4096) returns what the terminal has queued.
EchoParentReads ==
    /\ e_pc = "loop"
    /\ tty_out # <<>>
    /\ out_bytes' = out_bytes \o tty_out
    /\ tty_out' = <<>>
    /\ UNCHANGED <<e_others, e_mode, input_text, child_kind, e_pc, e_written,
                   tty_line, tty_ready, child_copied, e_child, e_outcome,
                   e_stdout>>

\* The child has exited and the terminal is drained: the loop breaks, the
\* writer is joined, the master closed, and the Result carries the decoded
\* and stripped output with the child's return code.
EchoReturns ==
    /\ e_pc = "loop"
    /\ e_child = "exited"
    /\ tty_out = <<>>
    /\ e_outcome' = ResultClass(0)
    /\ e_stdout' = Strip(out_bytes)
    /\ e_pc' = "done"
    /\ UNCHANGED <<e_others, e_mode, input_text, child_kind, e_written,
                   tty_line, tty_ready, tty_out, child_copied, e_child,
                   out_bytes>>

\* Nothing is left to read or to write and the child, still waiting for
\* input, has not exited: the loop sleeps until the deadline, kills the child
\* and raises.
EchoDeadline ==
    /\ e_pc = "loop"
    /\ e_child = "running"
    /\ e_written = Len(input_text)
    /\ tty_ready = <<>>
    /\ tty_out = <<>>
    /\ ~(child_kind = "counted" /\ child_copied = Len(input_text))
    /\ e_child' = "killed"
    /\ e_outcome' = RaisedClass("Timeout")
    /\ e_pc' = "done"
    /\ UNCHANGED <<e_others, e_mode, input_text, child_kind, e_written,
                   tty_line, tty_ready, tty_out, child_copied, out_bytes,
                   e_stdout>>

EchoStart ==
    /\ e_pc = "call"
    /\ e_written = 0
    /\ tty_line = <<>>
    /\ tty_ready = <<>>
    /\ tty_out = <<>>
    /\ child_copied = 0
    /\ e_child = "none"
    /\ out_bytes = <<>>
    /\ e_outcome = "none"
    /\ e_stdout = <<>>

\* No copying call in progress.
EchoIdle ==
    /\ e_mode = "pty"
    /\ input_text = <<>>
    /\ child_kind = "to_eof"
    /\ EchoStart

\* run_with_pty is called on a copying command with some input text.
EchoInit ==
    /\ e_mode \in {"pty", "pipe"}
    /\ input_text \in Texts
    /\ child_kind \in ChildKinds
    /\ EchoStart

EchoNext ==
    \/ EchoPipeRun
    \/ EchoPtySpawn
    \/ EchoWriterWrites
    \/ EchoChildCopies
    \/ EchoChildExits
    \/ EchoParentReads
    \/ EchoReturns
    \/ EchoDeadline

\* ------------------------------------------------------------------ strategies
\* The CLI agents and the ways each one runs its command, in the order its
\* code tries them.
Capabilities ==
    {"ClaudeWorkerAgentCLI", "CodexCriticAgentCLI",
     "ClaudeWorkerAgentEnhancedCLI", "ChatGPTCriticAgentEnhancedCLI"}

Strategies(c) ==
    CASE c = "ClaudeWorkerAgentCLI" -> <<"file_flag", "stdin">>
      [] c = "CodexCriticAgentCLI" -> <<"pty_stdin">>
      [] c = "ClaudeWorkerAgentEnhancedCLI" -> <<"file_flag", "stdin">>
      [] c = "ChatGPTCriticAgentEnhancedCLI" -> <<"api_args", "file_arg", "stdin">>

\* Only the agents that hand the prompt over in a file create one.
UsesTempFile(c) == c # "CodexCriticAgentCLI"

\* What a command prints on stdout, and the diagnostic the k-th attempt
\* leaves on stderr.
Stdouts == {<<"o", "k">>, <<" ", "o", "k", "\n">>, <<>>}
Digit == <<"1", "2", "3">>
StderrOf(k) == <<"e", Digit[k]>>

Attempt(st, end, out) == [strategy |-> st, end |-> end, stdout |-> out]

\* `if result.returncode != 0:` sends the code on to the next strategy or to
\* the raise; a zero return code is accepted.
AcceptedMutAnyExit(end) == end \in {"exit0", "exit1"}
Accepted(end) == end = "exit0"

NoError == [diagnostics |-> {}, guidance |-> FALSE]

\* RuntimeError(f"... CLI failed: {result.stderr}" ...): result is the last
\* subprocess run, and only the enhanced critic appends its hints.
FailedError(c, k) ==
    [diagnostics |-> {StderrOf(k)},
     guidance |-> (c = "ChatGPTCriticAgentEnhancedCLI")]

\* An invocation with no finally clause: the file is left where it is.
CleanupMutNoFinally == temp_file' = temp_file
\* finally: if os.path.exists(temp_file): os.unlink(temp_file)
Cleanup == temp_file' = FALSE

\* generate() is called: the prompt is written to a temporary file and the
\* first strategy's subprocess is started.
InvokeStarts ==
    /\ s_pc \in {"idle", "done"}
    /\ invocations < MaxInvocations
    /\ invocations' = invocations + 1
    /\ temp_file' = UsesTempFile(cap)
    /\ attempts' = <<>>
    /\ s_outcome' = "none"
    /\ s_returned' = <<>>
    /\ error_msg' = NoError
    /\ s_pc' = "attempt"
    /\ UNCHANGED <<s_others, cap, cli_exists>>

\* The subprocess of the strategy in turn exits.  With status zero its
\* stripped stdout is returned; otherwise the next strategy is started, or,
\* after the last one, RuntimeError is raised.
StrategyExits(end, out) ==
    /\ s_pc = "attempt"
    /\ cli_exists
    /\ LET k == Len(attempts) + 1
           a == Attempt(Strategies(cap)[k], end, out)
       IN /\ attempts' = Append(attempts, a)
          /\ IF Accepted(end)
             THEN /\ s_outcome' = "Success"
                  /\ s_returned' = Strip(out)
                  /\ Cleanup
                  /\ s_pc' = "done"
                  /\ UNCHANGED error_msg
             ELSE IF k < Len(Strategies(cap))
             THEN UNCHANGED <<s_pc, s_outcome, s_returned, error_msg, temp_file>>
             ELSE /\ s_outcome' = "Failed"
                  /\ error_msg' = FailedError(cap, k)
                  /\ Cleanup
                  /\ s_pc' = "done"
                  /\ UNCHANGED s_returned
    /\ UNCHANGED <<s_others, cap, cli_exists, invocations>>

\* The subprocess does not end within the timeout: subprocess.run raises
\* TimeoutExpired (run_with_pty: RuntimeError), which leaves generate()
\* through the finally clause.
StrategyTimesOut ==
    /\ s_pc = "attempt"
    /\ cli_exists
    /\ LET k == Len(attempts) + 1
       IN attempts' = Append(attempts, Attempt(Strategies(cap)[k], "timeout", <<>>))
    /\ s_outcome' = "Timeout"
    /\ Cleanup
    /\ s_pc' = "done"
    /\ UNCHANGED <<s_others, cap, cli_exists, s_returned, error_msg, invocations>>

\* The command does not exist: Popen raises FileNotFoundError, which leaves
\* generate(); the Codex critic turns it into a RuntimeError that tells how to
\* install or replace the command.
StrategyNotFound ==
    /\ s_pc = "attempt"
    /\ ~cli_exists
    /\ LET k == Len(attempts) + 1
       IN attempts' = Append(attempts, Attempt(Strategies(cap)[k], "notfound", <<>>))
    /\ IF cap = "CodexCriticAgentCLI"
       THEN /\ s_outcome' = "Failed"
            /\ error_msg' = [diagnostics |-> {}, guidance |-> TRUE]
       ELSE /\ s_outcome' = "NotFound"
            /\ UNCHANGED error_msg
    /\ Cleanup
    /\ s_pc' = "done"
    /\ UNCHANGED <<s_others, cap, cli_exists, s_returned, invocations>>

InvokeStart ==
    /\ s_pc = "idle"
    /\ attempts = <<>>
    /\ temp_file = FALSE
    /\ s_outcome = "none"
    /\ s_returned = <<>>
    /\ error_msg = NoError
    /\ invocations = 0

\* No capability under observation.
InvokeIdle ==
    /\ cap = "CodexCriticAgentCLI"
    /\ cli_exists = TRUE
    /\ InvokeStart

\* A CLI agent right after construction.
InvokeInit ==
    /\ cap \in Capabilities
    /\ cli_exists \in BOOLEAN
    /\ InvokeStart

InvokeNext ==
    \/ InvokeStarts
    \/ \E end \in {"exit0", "exit1"}, out \in Stdouts : StrategyExits(end, out)
    \/ StrategyTimesOut
    \/ StrategyNotFound

\* ------------------------------------------------------------------ critique
\* One critic answer followed from the raw text to the record of its
\* iteration.
RespApprovedInside == <<"x", " ">> \o APPROVED
RespNewlineVerify == <<"\n">> \o RespVerify

RawResponses ==
    {RespApproved, APPROVED, RespNeedsWork, RespVerify, RespEmpty,
     RespSpaceApproved, RespApprovedInside, RespNewlineVerify}

EnhancedVariants == {"enhanced", "enhanced_cli"}

\* needs_verification = feedback.startswith("NEEDS VERIFICATION:")
NeedsVerification(feedback) == StartsWith(feedback, NEEDS_VERIFICATION)

SearchPlaceholder == <<"[", "s", "e", "a", "r", "c", "h", "]">>

\* search_summary of the enhanced critics: the placeholder text when the
\* answer asks for verification and search is enabled, None otherwise.  The
\* other critics return a pair, and their orchestrators record no such key.
SearchSummary(v, es, feedback) ==
    IF v \in EnhancedVariants /\ NeedsVerification(feedback) /\ es
    THEN SearchPlaceholder
    ELSE NoneText

NoCriticResult ==
    [feedback |-> NoneText, is_approved |-> FALSE, search_summary |-> NoneText]

NoCriticRecord ==
    [iteration |-> 0, feedback |-> NoneText, approved |-> FALSE,
     search_summary |-> NoneText]

\* critic.generate(prompt, work) returns.
CriticGenerates ==
    /\ c_pc = "invoked"
    /\ LET feedback == CriticFeedback(c_variant, raw_response)
       IN critic_result' =
             [feedback |-> feedback,
              is_approved |-> IsApproved(feedback),
              search_summary |-> SearchSummary(c_variant, enable_search, feedback)]
    /\ c_pc' = "returned"
    /\ UNCHANGED <<c_others, c_variant, enable_search, raw_response, c_record>>

\* run() builds the iteration's record from the returned tuple.
CritiqueRecorded ==
    /\ c_pc = "returned"
    /\ c_record' =
          [iteration |-> 1,
           feedback |-> critic_result.feedback,
           approved |-> critic_result.is_approved,
           search_summary |-> critic_result.search_summary]
    /\ c_pc' = "recorded"
    /\ UNCHANGED <<c_others, c_variant, enable_search, raw_response, critic_result>>

CritiqueStart ==
    /\ c_pc = "invoked"
    /\ critic_result = NoCriticResult
    /\ c_record = NoCriticRecord

\* No critique under observation.
CritiqueIdle ==
    /\ c_variant = "direct"
    /\ enable_search = TRUE
    /\ raw_response = RespEmpty
    /\ CritiqueStart

\* Some critic is invoked and the service or command answers with some text.
CritiqueInit ==
    /\ c_variant \in Variants
    /\ enable_search \in BOOLEAN
    /\ raw_response \in RawResponses
    /\ CritiqueStart

CritiqueNext ==
    \/ CriticGenerates
    \/ CritiqueRecorded

\* -------------------------------------------------------------- factories
\* create_capl_from_env, create_capl_enhanced, create_capl_cli and
\* create_capl_enhanced_cli, followed by the first two invocations of run()
\* on the object they built.
DirectFactories == {"create_capl_from_env", "create_capl_enhanced"}
CliFactories == {"create_capl_cli", "create_capl_enhanced_cli"}
Factories == DirectFactories \cup CliFactories

\* A key argument or environment entry: absent (None), empty, or a key.
KeyValues == {"None", "", "sk"}
\* A model argument: empty, or a model name (the default is one).
ModelValues == {"", "model"}

KeyTruthy(k) == k \notin {"None", ""}
\* Python's `a or b`.
KeyOr(a, b) == IF KeyTruthy(a) THEN a ELSE b

anthropic_key == KeyOr(anthropic_api_key, env_anthropic)
openai_key == KeyOr(openai_api_key, env_openai)

\* What the configuration lacks for the object the factory is asked for.
MissingCredential ==
    factory \in DirectFactories /\ (~KeyTruthy(anthropic_key) \/ ~KeyTruthy(openai_key))
MissingModel ==
    factory \in DirectFactories /\ (worker_model = "" \/ critic_model = "")
MissingCommand ==
    factory \in CliFactories /\ (~worker_cli_exists \/ ~critic_cli_exists)

\* The direct-API factories: the two keys are looked up and checked, then
\* the agents and the orchestrator are built from them.
FactoryFromEnv ==
    /\ f_pc = "factory"
    /\ factory \in DirectFactories
    /\ IF ~KeyTruthy(anthropic_key) \/ ~KeyTruthy(openai_key)
       THEN f_pc' = "config_error" /\ f_error' = "ValueError"
       ELSE f_pc' = "constructed" /\ f_error' = "none"
    /\ UNCHANGED <<f_others, fparams, f_invoked, f_spawned>>

\* The CLI factories: the command names are stored in the agents.
FactoryCli ==
    /\ f_pc = "factory"
    /\ factory \in CliFactories
    /\ f_pc' = "constructed"
    /\ UNCHANGED <<f_others, fparams, f_error, f_invoked, f_spawned>>

\* run() makes the initial Worker invocation: a request to the service with
\* the stored key and model, or a subprocess of the stored command.
FactoryWorkerInvoked ==
    /\ f_pc = "constructed"
    /\ f_invoked' = f_invoked + 1
    /\ IF factory \in DirectFactories
       THEN IF worker_model = ""
            THEN f_pc' = "run_raised" /\ f_error' = "APIError"
            ELSE f_pc' = "worked" /\ UNCHANGED f_error
       ELSE IF worker_cli_exists
            THEN f_pc' = "worked" /\ UNCHANGED f_error
            ELSE f_pc' = "run_raised" /\ f_error' = "FileNotFoundError"
    /\ f_spawned' = IF factory \in CliFactories /\ worker_cli_exists
                    THEN f_spawned + 1 ELSE f_spawned
    /\ UNCHANGED <<f_others, fparams>>

\* run() makes the first Critic invocation.  CodexCriticAgentCLI turns the
\* FileNotFoundError of the transport into a RuntimeError.
FactoryCriticInvoked ==
    /\ f_pc = "worked"
    /\ f_invoked' = f_invoked + 1
    /\ IF factory \in DirectFactories
       THEN IF critic_model = ""
            THEN f_pc' = "run_raised" /\ f_error' = "APIError"
            ELSE f_pc' = "reviewed" /\ UNCHANGED f_error
       ELSE IF critic_cli_exists
            THEN f_pc' = "reviewed" /\ UNCHANGED f_error
            ELSE /\ f_pc' = "run_raised"
                 /\ f_error' = IF factory = "create_capl_cli"
                               THEN "RuntimeError" ELSE "FileNotFoundError"
    /\ f_spawned' = IF factory \in CliFactories /\ critic_cli_exists
                    THEN f_spawned + 1 ELSE f_spawned
    /\ UNCHANGED <<f_others, fparams>>

FactoryStart ==
    /\ f_pc = "factory"
    /\ f_error = "none"
    /\ f_invoked = 0
    /\ f_spawned = 0

\* No factory under observation.
FactoryIdle ==
    /\ factory = "create_capl_from_env"
    /\ anthropic_api_key = "sk" /\ env_anthropic = "None"
    /\ openai_api_key = "sk" /\ env_openai = "None"
    /\ worker_model = "model" /\ critic_model = "model"
    /\ worker_cli_exists = TRUE /\ critic_cli_exists = TRUE
    /\ FactoryStart

\* Some factory is called in some configuration: keys and models matter to
\* the direct-API factories only, commands to the CLI factories only.
FactoryInit ==
    /\ factory \in Factories
    /\ anthropic_api_key \in KeyValues /\ env_anthropic \in KeyValues
    /\ openai_api_key \in KeyValues /\ env_openai \in KeyValues
    /\ worker_model \in ModelValues /\ critic_model \in ModelValues
    /\ worker_cli_exists \in BOOLEAN /\ critic_cli_exists \in BOOLEAN
    /\ factory \in DirectFactories => (worker_cli_exists /\ critic_cli_exists)
    /\ factory \in CliFactories =>
          /\ anthropic_api_key = "None" /\ env_anthropic = "None"
          /\ openai_api_key = "None" /\ env_openai = "None"
          /\ worker_model = "model" /\ critic_model = "model"
    /\ FactoryStart

FactoryNext ==
    \/ FactoryFromEnv
    \/ FactoryCli
    \/ FactoryWorkerInvoked
    \/ FactoryCriticInvoked

\* ---------------------------------------------------------------- writer
\* write_input of run_with_pty, with the bytes themselves followed: data is
\* input_text.encode(), and every os.write takes some of data[written:],
\* would block, or fails.
InputChars == {"a", "\n", "é"}
InputTexts == UNION {[1..k -> InputChars] : k \in 0..MaxText}

\* str.encode(): UTF-8, one byte for an ASCII character and two for "é".
EncodeChar(c) == IF c = "é" THEN <<"C3", "A9">> ELSE <<c>>
RECURSIVE Encode(_)
Encode(s) == IF s = <<>> THEN <<>> ELSE EncodeChar(Head(s)) \o Encode(Tail(s))

\* os.write that sends the first n bytes of data again instead of data[written:].
WrWritesMutNoSlice(n) ==
    /\ wr_pc = "loop"
    /\ wr_written < Len(wr_data)
    /\ n \in 1..(Len(wr_data) - wr_written)
    /\ delivered' = delivered \o SubSeq(wr_data, 1, n)
    /\ wr_written' = wr_written + n
    /\ UNCHANGED <<wr_others, wr_text, wr_data, wr_pc, wr_error>>

\* n = os.write(master, data[written:]); written += n
WrWrites(n) ==
    /\ wr_pc = "loop"
    /\ wr_written < Len(wr_data)
    /\ n \in 1..(Len(wr_data) - wr_written)
    /\ delivered' = delivered \o SubSeq(wr_data, wr_written + 1, wr_written + n)
    /\ wr_written' = wr_written + n
    /\ UNCHANGED <<wr_others, wr_text, wr_data, wr_pc, wr_error>>

\* os.write raises EAGAIN / EWOULDBLOCK: time.sleep(0.01)
WrWouldBlock ==
    /\ wr_pc = "loop"
    /\ wr_written < Len(wr_data)
    /\ wr_pc' = "sleep"
    /\ UNCHANGED <<wr_others, wr_text, wr_data, wr_written, delivered, wr_error>>

\* The sleep is over: back to the loop condition.
WrRetries ==
    /\ wr_pc = "sleep"
    /\ wr_pc' = "loop"
    /\ UNCHANGED <<wr_others, wr_text, wr_data, wr_written, delivered, wr_error>>

\* os.write raises another OSError: it is re-raised, kept in write_error, and
\* the thread ends.
WrFails ==
    /\ wr_pc = "loop"
    /\ wr_written < Len(wr_data)
    /\ wr_error' = TRUE
    /\ wr_pc' = "done"
    /\ UNCHANGED <<wr_others, wr_text, wr_data, wr_written, delivered>>

\* written == len(data): the loop ends, write_complete.set().
WrCompletes ==
    /\ wr_pc = "loop"
    /\ wr_written = Len(wr_data)
    /\ wr_pc' = "done"
    /\ UNCHANGED <<wr_others, wr_text, wr_data, wr_written, delivered, wr_error>>

WriterStart ==
    /\ wr_data = Encode(wr_text)
    /\ wr_pc = "loop"
    /\ wr_written = 0
    /\ delivered = <<>>
    /\ wr_error = FALSE

\* No writer under observation.
WriterIdle ==
    /\ wr_text = <<>>
    /\ WriterStart

\* The writer thread starts on some input text.
WriterInit ==
    /\ wr_text \in InputTexts
    /\ WriterStart

WriterNext ==
    \/ \E n \in 1..(2 * MaxText) : WrWrites(n)
    \/ WrWouldBlock
    \/ WrRetries
    \/ WrFails
    \/ WrCompletes

\* ---------------------------------------------------------------- wrappers
\* cli_wrappers/claude_wrapper.py and cli_wrappers/openai_wrapper.py: one
\* run of main() as a command, from its arguments, environment and stdin to
\* its stdout and exit status.
Wrappers == {"claude_wrapper", "openai_wrapper"}

\* sys.argv[1:].  "path" names the prompt file; no file is called "--file"
\* or "api".
ArgVectors == {<<>>, <<"path">>, <<"--file", "path">>, <<"--file">>, <<"api", "path">>}

\* What stdin or the prompt file holds, and what the service answers.
PromptTexts == {<<>>, <<" ", "\n">>, <<"p">>}
ServiceAnswers == {<<>>, <<"r">>}

\* The file main() opens, "stdin" when it reads sys.stdin: the Claude
\* wrapper takes `--file PATH` or a bare path, the OpenAI wrapper a bare path.
PromptSource(w, av) ==
    IF av = <<>> THEN "stdin"
    ELSE IF w = "claude_wrapper" /\ av[1] = "--file" /\ Len(av) > 1 THEN av[2]
    ELSE av[1]

\* open(...).read() succeeds: the file is the prompt file and can be read.
Readable(src) == src = "stdin" \/ (src = "path" /\ file_readable)

\* api_key = os.getenv(...); if not api_key: message on stderr, sys.exit(1)
WrapperChecksKey ==
    /\ wp_pc = "start"
    /\ IF KeyTruthy(env_key)
       THEN /\ wp_pc' = "read"
            /\ UNCHANGED <<wp_status, wp_stderr>>
       ELSE /\ wp_pc' = "exited"
            /\ wp_status' = 1
            /\ wp_stderr' = TRUE
    /\ UNCHANGED <<wp_others, wpparams, wp_prompt, wp_api, wp_response, wp_stdout>>

\* The prompt is read from the file argument or from stdin; an open() that
\* fails is not caught: traceback on stderr, exit status 1.
WrapperReadsPrompt ==
    /\ wp_pc = "read"
    /\ IF Readable(PromptSource(wrapper, argv))
       THEN /\ wp_prompt' = source_text
            /\ wp_pc' = "check"
            /\ UNCHANGED <<wp_status, wp_stderr>>
       ELSE /\ wp_pc' = "exited"
            /\ wp_status' = 1
            /\ wp_stderr' = TRUE
            /\ UNCHANGED wp_prompt
    /\ UNCHANGED <<wp_others, wpparams, wp_api, wp_response, wp_stdout>>

\* if not prompt.strip(): message on stderr, sys.exit(1)
WrapperChecksPrompt ==
    /\ wp_pc = "check"
    /\ IF Strip(wp_prompt) = <<>>
       THEN /\ wp_pc' = "exited"
            /\ wp_status' = 1
            /\ wp_stderr' = TRUE
       ELSE /\ wp_pc' = "api"
            /\ UNCHANGED <<wp_status, wp_stderr>>
    /\ UNCHANGED <<wp_others, wpparams, wp_prompt, wp_api, wp_response, wp_stdout>>

\* A wrapper that reports a failed call on stdout and ends normally.
WrapperCallsApiMutReportsOnStdout(ok, answer) ==
    /\ wp_pc = "api"
    /\ wp_pc' = "exited"
    /\ wp_status' = 0
    /\ IF ok
       THEN /\ wp_api' = "ok"
            /\ wp_response' = answer
            /\ wp_stdout' = answer \o <<"\n">>
            /\ UNCHANGED wp_stderr
       ELSE /\ wp_api' = "error"
            /\ wp_stdout' = <<"E", "\n">>
            /\ UNCHANGED <<wp_response, wp_stderr>>
    /\ UNCHANGED <<wp_others, wpparams, wp_prompt>>

\* The API call: its answer is printed and main() returns (status 0); any
\* exception is reported on stderr and the wrapper exits with status 1.
WrapperCallsApi(ok, answer) ==
    /\ wp_pc = "api"
    /\ wp_pc' = "exited"
    /\ IF ok
       THEN /\ wp_api' = "ok"
            /\ wp_response' = answer
            /\ wp_stdout' = answer \o <<"\n">>
            /\ wp_status' = 0
            /\ UNCHANGED wp_stderr
       ELSE /\ wp_api' = "error"
            /\ wp_status' = 1
            /\ wp_stderr' = TRUE
            /\ UNCHANGED <<wp_response, wp_stdout>>
    /\ UNCHANGED <<wp_others, wpparams, wp_prompt>>

WrapperStart ==
    /\ wp_pc = "start"
    /\ wp_prompt = <<>>
    /\ wp_api = "none"
    /\ wp_response = <<>>
    /\ wp_stdout = <<>>
    /\ wp_stderr = FALSE
    /\ wp_status = 0

\* No wrapper under observation.
WrapperIdle ==
    /\ wrapper = "claude_wrapper"
    /\ env_key = "sk"
    /\ argv = <<>>
    /\ file_readable = TRUE
    /\ source_text = <<>>
    /\ WrapperStart

\* A wrapper is started as a command, in some environment.
WrapperInit ==
    /\ wrapper \in Wrappers
    /\ env_key \in KeyValues
    /\ argv \in ArgVectors
    /\ file_readable \in BOOLEAN
    /\ source_text \in PromptTexts
    /\ WrapperStart

WrapperNext ==
    \/ WrapperChecksKey
    \/ WrapperReadsPrompt
    \/ WrapperChecksPrompt
    \/ \E ok \in BOOLEAN, answer \in ServiceAnswers : WrapperCallsApi(ok, answer)

\* What is not under observation in the specifications below.
MoreIdle == FactoryIdle /\ WriterIdle /\ WrapperIdle

\* ------------------------------------------------------------------ specs
\* The orchestrator, with no transport call in progress.
Init == OrchInit /\ PtyIdle /\ EchoIdle /\ InvokeIdle /\ CritiqueIdle /\ MoreIdle
Next == OrchNext
Spec == Init /\ [][Next]_vars

\* An invocation in flight comes to an end: the service or command answers.
InvocationReturns ==
    \/ InitialWorkReturns
    \/ \E raw \in CriticResponses : CriticReturns(raw)
    \/ RefineReturns

\* The orchestrator when every invocation made succeeds: none raises, and
\* each one eventually returns.  Nothing obliges the caller to call run()
\* again.
NextSucceeding ==
    \/ StartRun
    \/ InitialWorkReturns
    \/ \E raw \in CriticResponses : CriticReturns(raw)
    \/ RefineReturns
FairOrch == WF_vars(InvocationReturns)
SpecFair == Init /\ [][NextSucceeding]_vars /\ FairOrch

\* One transport call, made by the CLI critic of an idle orchestrator.
InitPty ==
    /\ variant = "cli"
    /\ max_iterations = 0
    /\ OrchStart
    /\ PtyInit
    /\ EchoIdle
    /\ InvokeIdle
    /\ CritiqueIdle
    /\ MoreIdle
NextPty == PtyNext
SpecPty == InitPty /\ [][NextPty]_vars

\* The steps of the thread that called run_with_pty, and of its writer thread.
CallerStep ==
    \/ OpenPty
    \/ PopenNotFound
    \/ PopenOk
    \/ LoopDeadline
    \/ ReadChunk
    \/ ReadEagain
    \/ ReadWouldBlock
    \/ ReadWouldBlockExited
    \/ ReadHangup
    \/ FinalRead
    \/ JoinDone
    \/ JoinTimesOut
    \/ RaiseWriteError
    \/ CloseMaster
    \/ CommunicateDone
    \/ CommunicateTimesOut
    \/ CommunicateAfterKill
    \/ StderrDrained
    \/ ExceptHandler
    \/ PipeNotFound
    \/ PipeSpawn
    \/ PipeCompletes
    \/ PipeTimesOut

WriterStep ==
    \/ \E n \in 1..MaxInput : WriterWrites(n)
    \/ WriterFails
    \/ WriterCompletes

\* The calling thread and the writer thread are scheduled whenever they can
\* run; nothing is assumed of the external command or its descendants.
FairPty == WF_vars(CallerStep) /\ WF_vars(WriterStep)
SpecPtyFair == InitPty /\ [][NextPty]_vars /\ FairPty

\* One transport call in pseudo-terminal mode on a command that writes to its
\* terminal only, nothing to stderr, with both threads scheduled fairly.
InitPtyTerminal ==
    /\ InitPty
    /\ mode = "pty"
    /\ err_pending = 0
NextPtyTerminal ==
    \/ OpenPty
    \/ PopenNotFound
    \/ PopenOk
    \/ LoopDeadline
    \/ ReadChunk
    \/ ReadEagain
    \/ ReadWouldBlock
    \/ ReadWouldBlockExited
    \/ ReadHangup
    \/ FinalRead
    \/ JoinDone
    \/ JoinTimesOut
    \/ RaiseWriteError
    \/ CloseMaster
    \/ CommunicateDone
    \/ CommunicateTimesOut
    \/ CommunicateAfterKill
    \/ ExceptHandler
    \/ \E n \in 1..MaxInput : WriterWrites(n)
    \/ WriterFails
    \/ WriterCompletes
    \/ ChildReads
    \/ ChildWrites
    \/ ChildClosesTty
    \/ ChildForks
    \/ \E rc \in {0, 1} : ChildExits(rc)
    \/ DescendantExits
SpecPtyTerminal == InitPtyTerminal /\ [][NextPtyTerminal]_vars /\ FairPty

\* One transport call on a command that copies its input.
InitEcho ==
    /\ variant = "cli"
    /\ max_iterations = 0
    /\ OrchStart
    /\ PtyIdle
    /\ EchoInit
    /\ InvokeIdle
    /\ CritiqueIdle
    /\ MoreIdle
NextEcho == EchoNext
SpecEcho == InitEcho /\ [][NextEcho]_vars

\* The invocations made on one CLI agent.
InitInvoke ==
    /\ variant = "cli"
    /\ max_iterations = 0
    /\ OrchStart
    /\ PtyIdle
    /\ EchoIdle
    /\ InvokeInit
    /\ CritiqueIdle
    /\ MoreIdle
NextInvoke == InvokeNext
SpecInvoke == InitInvoke /\ [][NextInvoke]_vars

\* One critique, from the raw answer to the record.
InitCritique ==
    /\ variant = "cli"
    /\ max_iterations = 0
    /\ OrchStart
    /\ PtyIdle
    /\ EchoIdle
    /\ InvokeIdle
    /\ CritiqueInit
    /\ MoreIdle
NextCritique == CritiqueNext
SpecCritique == InitCritique /\ [][NextCritique]_vars

\* One factory call and the first invocations of run() on what it built.
InitFactory ==
    /\ variant = "cli"
    /\ max_iterations = 0
    /\ OrchStart
    /\ PtyIdle
    /\ EchoIdle
    /\ InvokeIdle
    /\ CritiqueIdle
    /\ FactoryInit
    /\ WriterIdle
    /\ WrapperIdle
NextFactory == FactoryNext
SpecFactory == InitFactory /\ [][NextFactory]_vars

\* The writer thread of one pseudo-terminal call.
InitWriter ==
    /\ variant = "cli"
    /\ max_iterations = 0
    /\ OrchStart
    /\ PtyIdle
    /\ EchoIdle
    /\ InvokeIdle
    /\ CritiqueIdle
    /\ FactoryIdle
    /\ WriterInit
    /\ WrapperIdle
NextWriter == WriterNext
SpecWriter == InitWriter /\ [][NextWriter]_vars

\* One run of a wrapper script.
InitWrapper ==
    /\ variant = "cli"
    /\ max_iterations = 0
    /\ OrchStart
    /\ PtyIdle
    /\ EchoIdle
    /\ InvokeIdle
    /\ CritiqueIdle
    /\ FactoryIdle
    /\ WriterIdle
    /\ WrapperInit
NextWrapper == WrapperNext
SpecWrapper == InitWrapper /\ [][NextWrapper]_vars

\* ================================================================== claims
\* The records the run in progress has appended to self.history.
RunRecords == SubSeq(history, hist_at_start + 1, Len(history))

\* The last critic answer of the run begins with "APPROVED:".
LastAnswerApproves ==
    /\ CriticCalls >= 1
    /\ Len(history) > hist_at_start + 1
    /\ StartsWith(history[Len(history)].feedback, APPROVED)

\* No critic answer recorded by the run begins with "APPROVED:".
NoAnswerApproves ==
    \A i \in (hist_at_start + 2)..Len(history) :
        ~StartsWith(history[i].feedback, APPROVED)

\* C1: in every state of a run, for every max_iterations >= 0 and every
\* sequence of critic answers, the number of Critic invocations the run has
\* made is at most max_iterations.
C1_CriticCallsBounded == CriticCalls <= max_iterations

\* C1 witness: a run that used its whole budget of two review cycles.
C1_Witness ==
    /\ opc = "returned"
    /\ max_iterations = 2
    /\ CriticCalls = 2

\* C2: the step in which the Critic's answer approves ends the run at once
\* (no Worker or Critic invocation is added), the returned approved flag is
\* true and the returned final work is the work that was submitted to that
\* Critic call; and nothing more of a returned run is invoked.
C2_ApprovalHalts ==
    [][ /\ ( /\ opc = "critique"
             /\ opc' # "raised"
             /\ opc' # "critique"
             /\ StartsWith(iteration_data'.feedback, APPROVED) )
           => /\ opc' = "returned"
              /\ calls' = calls
              /\ result'.approved = TRUE
              /\ result'.final_work = calls[Len(calls)].work
        /\ opc = "returned" => (calls' = calls \/ runs' = runs + 1)
      ]_vars

\* C2 witness: a run approved at iteration 1 with a budget of 2, so that the
\* halt happens while budget remains.
C2_Witness ==
    /\ opc = "returned"
    /\ max_iterations = 2
    /\ iteration = 1
    /\ LastAnswerApproves
    /\ result.approved

\* C3: a run with max_iterations >= 1 that completed all its review cycles
\* without approval returns approved = false and, as final work, the last
\* output the Worker produced in that run.
C3_ExhaustedResult ==
    ( /\ opc = "returned"
      /\ max_iterations >= 1
      /\ CriticCalls = max_iterations
      /\ NoAnswerApproves )
    => /\ result.approved = FALSE
       /\ result.final_work = Draft(runs, WorkerCalls)

\* C3 witness: two review cycles, none approving, one refinement in between.
C3_Witness ==
    /\ opc = "returned"
    /\ max_iterations = 2
    /\ CriticCalls = 2
    /\ NoAnswerApproves
    /\ WorkerCalls = 2
    /\ result.final_work = Draft(runs, 2)

\* C4: a run with max_iterations = 0 returns a history of length exactly 1,
\* has invoked the Critic zero times and returns approved = false.
C4_ZeroIterations ==
    (opc = "returned" /\ max_iterations = 0)
    => /\ Len(ReturnedHistory) = 1
       /\ CriticCalls = 0
       /\ result.approved = FALSE

\* C5: a run in which the Critic rejects at iterations 1..k-1 and approves at
\* iteration k returns approved = true, a history of length k+1 whose records
\* carry the indices 0..k in order, and the k-th Worker output as final work.
C5_ApprovedAtK ==
    (opc = "returned" /\ LastAnswerApproves)
    => LET k == CriticCalls
       IN /\ result.approved = TRUE
          /\ Len(ReturnedHistory) = k + 1
          /\ \A i \in 1..Len(ReturnedHistory) :
                ReturnedHistory[i].iteration = i - 1
          /\ result.final_work = Draft(runs, k)

\* C6 as stated: with max_iterations = 1 and a Critic that does not approve,
\* the run returns approved = false, a history of length 2, and as final work
\* a refined draft the Worker produced after, and in response to, the
\* iteration-1 critique.
C6_RefinedDraftReturned ==
    (opc = "returned" /\ max_iterations = 1 /\ NoAnswerApproves)
    => /\ result.approved = FALSE
       /\ Len(ReturnedHistory) = 2
       /\ calls[Len(calls)].role = "Worker"
       /\ calls[Len(calls)].feedback = history[Len(history)].feedback
       /\ result.final_work = Draft(runs, 2)

\* C6 amended: with max_iterations = 1 and a Critic that does not approve,
\* the run returns approved = false, has appended exactly two records (index 0
\* and index 1) at the end of the history, and returns the initial draft, the
\* Worker's only output in that run: the critique is the run's last
\* invocation.
C6_InitialDraftReturned ==
    (opc = "returned" /\ max_iterations = 1 /\ NoAnswerApproves)
    => /\ result.approved = FALSE
       /\ Len(RunRecords) = 2
       /\ RunRecords[1].iteration = 0
       /\ RunRecords[2].iteration = 1
       /\ WorkerCalls = 1
       /\ calls[Len(calls)].role = "Critic"
       /\ result.final_work = Draft(runs, 1)
       /\ result.final_work = RunRecords[1].work
       /\ RunRecords[2].work = RunRecords[1].work

\* C6 witness: a returned run with max_iterations = 1 whose only critique
\* asked for more work.
C6_Witness ==
    /\ opc = "returned"
    /\ max_iterations = 1
    /\ CriticCalls = 1
    /\ NoAnswerApproves
    /\ history[Len(history)].feedback = RespNeedsWork

\* C7: when a pseudo-terminal transport call has ended, on whatever path, none
\* of the descriptors it opened is still open: not the pty master, not the pty
\* slave, not the child's stderr pipe.
C7_NoDescriptorLeftOpen ==
    (pc = "done" /\ mode = "pty")
    => /\ ~master_open
       /\ ~slave_open
       /\ ~stderr_open

\* C8: when a transport call has ended, on whatever path, the child it spawned
\* is no longer running (it exited by itself or was killed), and the call has
\* killed it or collected its exit status.
C8_ChildNotLeftRunning ==
    (pc = "done" /\ child # "none")
    => /\ child \in {"exited", "killed"}
       /\ child = "killed" \/ reaped

\* C8 witness: a pseudo-terminal call on a command that never exits ended by
\* the deadline, with the child killed.
C8_Witness ==
    /\ pc = "done"
    /\ mode = "pty"
    /\ ~child_terminates
    /\ outcome = "Timeout"
    /\ child = "killed"

\* C9: every transport call ends with one of Success, Timeout, NotFound and
\* Failed; a child that had not exited when the deadline elapsed is reported
\* as Timeout and a missing executable as NotFound, in both modes.
C9_OutcomeClasses ==
    pc = "done"
    => /\ outcome \in {"Success", "Timeout", "NotFound", "Failed"}
       /\ running_at_deadline => outcome = "Timeout"
       /\ ~exists => outcome = "NotFound"

\* C10: a call on a command that never terminates ends with the child
\* force-killed after the timeout has elapsed and reports Timeout, whatever
\* the child does with its terminal and its output.
C10_HungChildTimesOut ==
    (pc = "done" /\ exists /\ ~child_terminates)
    => /\ outcome = "Timeout"
       /\ child = "killed"
       /\ Expired

\* C11: every transport call eventually returns to its caller (with a result
\* or an exception), whatever the child does: never reading, never exiting,
\* filling its output, closing its terminal, leaving descendants that hold
\* its descriptors.
C11_CallReturns == <>(pc = "done")

\* C12: a transport call on a command that copies its whole input to stdout
\* and exits 0 returns Success with output equal to the input text, for every
\* input text, in pipe mode and in pseudo-terminal mode.
C12_EchoIntegrity ==
    e_pc = "done" => (e_outcome = "Success" /\ e_stdout = input_text)

\* The invocation has ended with every declared strategy tried and none
\* exiting with status zero.
AllStrategiesFailed ==
    /\ s_pc = "done"
    /\ Len(attempts) = Len(Strategies(cap))
    /\ \A i \in 1..Len(attempts) : attempts[i].end = "exit1"

\* C13: the subprocesses an invocation runs are its strategies in declared
\* order; an attempt that exits with status zero is the last one, and the
\* invocation succeeds exactly then, returning that attempt's (stripped)
\* output; in particular with three strategies of which the first two exit
\* nonzero and the third exits 0, the third one's output is returned.
C13_FirstZeroExitAccepted ==
    /\ \A i \in 1..Len(attempts) :
          /\ i <= Len(Strategies(cap))
          /\ attempts[i].strategy = Strategies(cap)[i]
          /\ i < Len(attempts) => attempts[i].end = "exit1"
    /\ s_pc = "done" =>
          /\ Len(attempts) >= 1
          /\ s_outcome = "Success" <=> attempts[Len(attempts)].end = "exit0"
          /\ s_outcome = "Success" =>
                s_returned = Strip(attempts[Len(attempts)].stdout)
    /\ s_pc = "attempt" =>
          \A i \in 1..Len(attempts) : attempts[i].end # "exit0"

\* C13 witness: three strategies, the first two exit nonzero, the third exits
\* 0 and its output is returned.
C13_Witness ==
    /\ s_pc = "done"
    /\ cap = "ChatGPTCriticAgentEnhancedCLI"
    /\ Len(attempts) = 3
    /\ attempts[1].end = "exit1"
    /\ attempts[2].end = "exit1"
    /\ attempts[3].end = "exit0"
    /\ attempts[3].stdout = <<" ", "o", "k", "\n">>
    /\ s_outcome = "Success"
    /\ s_returned = <<"o", "k">>

\* C14: when every strategy of an invocation has failed, the one failure
\* raised carries the diagnostic text of each attempt and remediation
\* guidance.
C14_CompositeFailure ==
    AllStrategiesFailed =>
        /\ s_outcome = "Failed"
        /\ error_msg.diagnostics = {StderrOf(i) : i \in 1..Len(attempts)}
        /\ error_msg.guidance

\* C15: an invocation fails only after all its strategies have been tried:
\* whatever the kind of failure of a strategy that is not the last one
\* (nonzero exit, timeout, missing executable), the next strategy is tried.
C15_EveryFailureFallsThrough ==
    (s_pc = "done" /\ s_outcome # "Success")
        => Len(attempts) = Len(Strategies(cap))

\* The status the prefix convention gives a raw response.
PrefixStatus(raw) ==
    IF StartsWith(raw, APPROVED) THEN "Approved"
    ELSE IF StartsWith(raw, NEEDS_VERIFICATION) THEN "PendingVerification"
    ELSE "NeedsWork"

\* The status an iteration record shows in its status fields.
RecordedStatus(d) ==
    IF d.approved THEN "Approved"
    ELSE IF d.search_summary # NoneText THEN "PendingVerification"
    ELSE "NeedsWork"

\* C16: the status recorded for an iteration is the one the prefix convention
\* gives the critic's raw response: Approved exactly for a response beginning
\* with "APPROVED:", PendingVerification exactly for one beginning with
\* "NEEDS VERIFICATION:", NeedsWork for every other.
C16_StatusFromPrefix ==
    c_pc = "recorded" => RecordedStatus(c_record) = PrefixStatus(raw_response)

\* An invocation is in flight.
InFlight == opc \in {"initial_generate", "critique", "refine"}

\* C17: the step in which the Critic's answer begins with
\* "NEEDS VERIFICATION:" does what it does for a needs-work answer: the run
\* goes on without waiting for anything, it is not ended as approved, and the
\* Worker is invoked for a refinement (with that feedback) exactly when the
\* iteration is not the last of the budget; otherwise the run returns
\* unapproved with no further invocation.
C17_VerificationFallsThrough ==
    [][ ( /\ opc = "critique"
          /\ opc' # "raised"
          /\ StartsWith(iteration_data'.feedback, NEEDS_VERIFICATION) )
        => /\ opc' \in {"refine", "returned"}
           /\ (opc' = "refine") <=> (iteration < max_iterations)
           /\ opc' = "refine" =>
                 /\ Len(calls') = Len(calls) + 1
                 /\ calls'[Len(calls')].role = "Worker"
                 /\ calls'[Len(calls')].feedback = iteration_data'.feedback
                 /\ history' = history
           /\ opc' = "returned" =>
                 /\ calls' = calls
                 /\ result'.approved = FALSE
                 /\ history'[Len(history')].approved = FALSE
      ]_vars

\* C17 witness: a refinement in flight that was started on a
\* "NEEDS VERIFICATION:" answer.
C17_Witness ==
    /\ opc = "refine"
    /\ StartsWith(iteration_data.feedback, NEEDS_VERIFICATION)
    /\ calls[Len(calls)].feedback = iteration_data.feedback

\* C18: when an invocation has failed, the run has ended (the failed
\* invocation is the last one the run made) and the history holds a record
\* for everything obtained up to the failure: record 0 if the initial
\* generation had returned, and a record carrying the feedback of every
\* critique that had returned, the one of the failing iteration included.
C18_FailurePreservesHistory ==
    opc = "raised" =>
        LET failed == calls[Len(calls)]
            obtained == IF failed.role = "Critic"
                        THEN CriticCalls - 1 ELSE CriticCalls
        IN /\ Len(calls) > 1 => Len(RunRecords) >= 1
           /\ \A k \in 1..obtained :
                 \E i \in 1..Len(RunRecords) :
                     /\ RunRecords[i].iteration = k
                     /\ RunRecords[i].feedback # NoneText
           /\ (failed.role = "Worker" /\ Len(calls) > 1) =>
                 \E i \in 1..Len(RunRecords) :
                     RunRecords[i].feedback = failed.feedback

\* C19: an invocation is started only by the call of run() (the initial
\* Worker invocation, nothing being in flight) or in the very step in which
\* the invocation in flight returns, one at a time: a Critic invocation in the
\* step a Worker invocation returns, on the work that invocation produced; a
\* Worker refinement in the step a Critic invocation returns, with the
\* feedback that invocation produced.
C19_OneInvocationInFlight ==
    [][ LET n == Len(calls)
            m == Len(calls')
        IN /\ runs' = runs + 1 => (~InFlight /\ m = 1 /\ calls'[1].role = "Worker")
           /\ (runs' = runs /\ calls' # calls) =>
                 /\ InFlight
                 /\ m = n + 1
                 /\ SubSeq(calls', 1, n) = calls
                 /\ calls'[m].role = "Critic" =>
                       /\ calls[n].role = "Worker"
                       /\ opc \in {"initial_generate", "refine"}
                       /\ calls'[m].work = Draft(runs, WorkerCalls)
                       /\ calls'[m].work = current_work'
                 /\ calls'[m].role = "Worker" =>
                       /\ calls[n].role = "Critic"
                       /\ opc = "critique"
                       /\ calls'[m].feedback = iteration_data'.feedback
      ]_vars

\* C19 witness: the second Critic invocation of a run in flight, started when
\* the refinement returned.
C19_Witness ==
    /\ opc = "critique"
    /\ iteration = 2
    /\ Len(calls) = 4
    /\ calls[4].work = Draft(runs, 2)

\* The run has returned approved on its last Critic answer, or unapproved
\* after max_iterations review cycles none of which approved.
TerminalApproved == result.approved /\ LastAnswerApproves
TerminalExhausted ==
    /\ ~result.approved
    /\ CriticCalls = max_iterations
    /\ NoAnswerApproves

\* C20: every run, if its invocations all succeed, returns (no invocation
\* stays in flight for ever, and with none raising a run can only leave that
\* condition by returning), and is then in exactly one of the terminal states
\* Approved and Exhausted; a returned run makes no further invocation and
\* appends nothing more to the history.
C20_TerminalOnce ==
    /\ [](opc = "returned" => (TerminalApproved \/ TerminalExhausted))
    /\ [](opc = "returned" => ~(TerminalApproved /\ TerminalExhausted))
    /\ [][ (opc = "returned" /\ runs' = runs)
             => (opc' = "returned" /\ UNCHANGED <<calls, history, result>>) ]_vars
    /\ []<>(~InFlight)

\* C20 witness: a run that ended approved with budget left.
C20_Witness ==
    /\ opc = "returned"
    /\ TerminalApproved
    /\ CriticCalls < max_iterations

\* C21: in every reachable state of a session the records of the history
\* carry the indices 0,1,2,... in insertion order without gap or repetition,
\* every index is at most max_iterations, and every step leaves the records
\* already appended as they are (the history only grows at its end).
C21_HistoryAppendOnlyOrdered ==
    /\ [](\A i \in 1..Len(history) :
            /\ history[i].iteration = i - 1
            /\ history[i].iteration <= max_iterations)
    /\ [][ /\ Len(history') >= Len(history)
           /\ SubSeq(history', 1, Len(history)) = history ]_vars

\* C22: the history a run returns holds only that run's records, and once a
\* run has returned (result is set) no later step changes the list that run
\* handed to its caller.  The returned list is self.history itself, so it
\* changes whenever history changes.
C22_RunOwnsHistory ==
    /\ [](opc = "returned" => ReturnedHistory = RunRecords)
    /\ [][ result # NoResult => ReturnedHistory' = ReturnedHistory ]_vars

\* C23: when a credential, a model or a command is missing, the factory call
\* ends in a configuration error, and neither a Worker or Critic invocation
\* nor an external process has been started; this for the direct-API and for
\* the CLI factories.
C23_MissingConfigRaisesAtConstruction ==
    (f_pc # "factory" /\ (MissingCredential \/ MissingModel \/ MissingCommand))
        => /\ f_pc = "config_error"
           /\ f_error = "ValueError"
           /\ f_invoked = 0
           /\ f_spawned = 0

\* The child has filled the terminal's output buffer while the writer still
\* has input bytes to deliver and the caller is in its read loop.
ChildBlockedOnOutput ==
    /\ pc = "loop_top"
    /\ child = "running"
    /\ pty_out = PtyOutCap
    /\ w_pc = "writing"
    /\ written < input_len

\* C24: in pseudo-terminal mode the caller's read loop drains the terminal
\* whatever the writer is doing: a state in which the child has filled the
\* output buffer while input is still pending is always left again (the
\* parent reads, or the deadline ends the loop), so the child and the parent
\* never wait for each other for ever.
C24_ReaderDrainsWhileInputPending == []<>(~ChildBlockedOnOutput)

\* C24 witness: the output buffer is full, the input buffer is full with a
\* byte the child has not consumed, and the writer has more bytes to write.
C24_Witness ==
    /\ ChildBlockedOnOutput
    /\ pty_in = PtyInCap
    /\ WriterBlocked

\* C25: whenever a pseudo-terminal call that started its writer thread has
\* returned or raised (normally, on the deadline, or with the writer's
\* error), writer_thread.join(timeout=5) has been called and is over.
C25_WriterJoinedOnEveryExit ==
    (mode = "pty" /\ pc = "done" /\ w_pc # "idle") => joined

\* The writer thread issues an os.write on the master's descriptor number.
WriterIssuesWrite ==
    \/ \E n \in 1..MaxInput : WriterWrites(n)
    \/ WriterFails

\* C26: in every interleaving of the writer thread with the calling thread,
\* the writer issues no os.write on the master's descriptor number once the
\* calling thread has closed the master.
C26_NoWriteAfterClose == [][WriterIssuesWrite => master_open]_vars

\* C27: for every pattern of partial writes and would-block results the
\* bytes accepted by the master are, in order and each exactly once, the
\* first `written` bytes of the input; a would-block result raises no error,
\* delivers nothing and does not end the writer; and the writer ends only
\* with all bytes delivered or with an error other than would-block.
C27_WriterDeliversInOrder ==
    /\ [](delivered = SubSeq(wr_data, 1, wr_written))
    /\ [](wr_pc = "done" => (wr_error \/ delivered = wr_data))
    /\ [][WrWouldBlock => (~wr_error' /\ delivered' = delivered /\ wr_pc' # "done")]_vars

\* C27 witness: a partial write that split a two-byte character, followed by
\* a would-block result, with bytes still to write.
C27_Witness ==
    /\ wr_pc = "sleep"
    /\ wr_text = <<"é", "a">>
    /\ wr_written = 1
    /\ delivered = <<"C3">>

\* C28: whenever a pseudo-terminal call returns for a child that exited with
\* status zero, the output it returns holds everything the child wrote to
\* its terminal, however much of it was still buffered when the read loop
\* saw that the child had exited.
C28_FinalDrainLosesNothing ==
    (mode = "pty" /\ pc = "done" /\ exc = "none" /\ child = "exited" /\ returncode = 0)
        => output = produced

\* C29: a step of the transport that kills a running child is taken only
\* once more than `timeout` has elapsed since start_time.
C29_KilledOnlyOnDeadline ==
    [][ (child = "running" /\ child' = "killed")
          => now' - start_time' > timeout' ]_vars

\* The child has filled its stderr pipe and has more to write: it is blocked
\* in that write, and would go on and exit by itself if the pipe were read.
ChildBlockedOnStderr ==
    /\ child = "running"
    /\ child_terminates
    /\ err_pending > 0
    /\ stderr_buf = StderrCap

\* C30: in pseudo-terminal mode the parent neither lets time pass waiting
\* nor kills the child while the child, which would exit by itself if its
\* stderr pipe were drained, is blocked on the full pipe.
C30_ChildNotLeftBlocked ==
    [][ (mode = "pty" /\ (now' > now \/ child' = "killed")) => ~ChildBlockedOnStderr ]_vars

\* The Worker invocation of the refinement step in flight.
RefineInFlight == calls[Len(calls)]

\* C31: in every refinement step, for each of the four orchestrator variants,
\* the Worker invocation in flight carries the feedback just received and the
\* current work, and when it returns the current work is the Worker's new
\* output, which is also the work of the record appended.
C31_RefineGetsFeedbackAndWork ==
    /\ [](opc = "refine" =>
            /\ RefineInFlight.role = "Worker"
            /\ RefineInFlight.feedback = iteration_data.feedback
            /\ RefineInFlight.work = current_work)
    /\ [][ (opc = "refine" /\ opc' \notin {"refine", "raised"}) =>
            /\ current_work' = Draft(runs, WorkerCalls)
            /\ current_work' # current_work
            /\ history'[Len(history')].work = current_work' ]_vars

\* C32: of the Worker invocations of a run, the first (the initial
\* generation, made without feedback) is the only one framed as a fresh
\* generation; every later one, made in a refinement step, is framed as a
\* revision, whatever feedback text the Critic returned, the empty text
\* included.
C32_RefinementFramedAsRevision ==
    \A i \in 1..Len(calls) :
        calls[i].role = "Worker" =>
            /\ (i = 1 => calls[i].framing = "fresh")
            /\ (i > 1 => calls[i].framing = "revision")

\* C33: when a run returns, the final work is the work of the last history
\* record; and the record of every iteration i >= 1 of the run holds the
\* Worker's new output if iteration i refined (not approved, budget left),
\* and otherwise the same work as the record before it.
C33_RecordsHoldCurrentWork ==
    opc = "returned" =>
        /\ result.final_work = ReturnedHistory[Len(ReturnedHistory)].work
        /\ \A k \in 2..Len(RunRecords) :
              LET r == RunRecords[k]
                  p == RunRecords[k - 1]
              IN IF ~r.approved /\ r.iteration < max_iterations
                 THEN r.work = Draft(runs, k) /\ r.work # p.work
                 ELSE r.work = p.work

\* C33 witness: a returned run whose first iteration refined and whose
\* second, the last the budget allows, kept the work.
C33_Witness ==
    /\ opc = "returned"
    /\ max_iterations = 2
    /\ Len(RunRecords) = 3
    /\ RunRecords[2].work = Draft(runs, 2)
    /\ RunRecords[3].work = Draft(runs, 2)
    /\ ~RunRecords[3].approved
    /\ result.final_work = Draft(runs, 2)

\* max(a, b)
Max(a, b) == IF a >= b THEN a ELSE b

\* C34: a run that has returned with max_iterations >= 1 has made as many
\* Worker invocations as Critic invocations (no Worker invocation follows the
\* last critique), and at no time has a run made more than
\* max(1, max_iterations) Worker invocations.
C34_WorkerCallsMatchCriticCalls ==
    /\ (opc = "returned" /\ max_iterations >= 1) => WorkerCalls = CriticCalls
    /\ WorkerCalls <= Max(1, max_iterations)

\* C34 witness: a run that used its whole budget of two iterations without
\* approval, with two Worker and two Critic invocations.
C34_Witness ==
    /\ opc = "returned"
    /\ max_iterations = 2
    /\ ~result.approved
    /\ WorkerCalls = 2
    /\ CriticCalls = 2
    /\ calls[Len(calls)].role = "Critic"

\* C35: the total_iterations a run returns is the number of Critic
\* invocations the run made, for every text the Critic answered with and
\* also on an object that has run before.
C35_TotalIterationsCountsCritiques ==
    opc = "returned" => result.total_iterations = CriticCalls

\* C36: when an invocation of a CLI agent has ended, by the success of a
\* strategy, the failure of all of them, a timeout or a missing executable,
\* the temporary prompt file it created does not exist.
C36_TempFileRemoved == s_pc = "done" => ~temp_file

\* C36 witness: an agent that writes its prompt to a file, whose first
\* strategy failed and whose second timed out; the file is gone.
C36_Witness ==
    /\ s_pc = "done"
    /\ UsesTempFile(cap)
    /\ Len(attempts) = 2
    /\ attempts[1].end = "exit1"
    /\ attempts[2].end = "timeout"
    /\ s_outcome = "Timeout"
    /\ ~temp_file

\* C37: whichever critic produced it, the approval status returned for a
\* raw response text is the one the direct-API critic derives from that same
\* text, and so is the same for the direct and the CLI backing; this for
\* every response text, texts with whitespace before the prefix included.
C37_BackingsAgreeOnApproval ==
    c_pc = "returned" =>
        critic_result.is_approved = IsApproved(CriticFeedback("direct", raw_response))

\* What a wrapper run was given, read off its arguments and environment.
WrapperMissingKey == ~KeyTruthy(env_key)
WrapperUnreadableFile == ~Readable(PromptSource(wrapper, argv))
WrapperBlankPrompt == Strip(source_text) = <<>>

\* C38: a wrapper that has exited with status 0 has written the service's
\* response to stdout; and with a missing API key, a prompt file that cannot
\* be read, an empty or whitespace-only prompt, or a failed API call it has
\* exited with a nonzero status and written nothing to stdout.
C38_WrapperExitStatus ==
    wp_pc = "exited" =>
        /\ wp_status = 0 => (wp_api = "ok" /\ wp_stdout = wp_response \o <<"\n">>)
        /\ (WrapperMissingKey \/ WrapperUnreadableFile \/ WrapperBlankPrompt
              \/ wp_api = "error")
             => (wp_status # 0 /\ wp_stdout = <<>>)

\* C38 witness: the Claude wrapper, given `--file` without a path, has
\* failed on opening a file of that name.
C38_Witness ==
    /\ wp_pc = "exited"
    /\ wrapper = "claude_wrapper"
    /\ argv = <<"--file">>
    /\ KeyTruthy(env_key)
    /\ wp_status = 1
    /\ wp_stderr
    /\ wp_stdout = <<>>

====
